---- MODULE Spec2Model ----
(***************************************************************************)
(* Model of scripts/generate-openapi.ts: the JSON-Schema -> OpenAPI        *)
(* generator of the OIF specifications repository.                         *)
(*                                                                         *)
(* A schema node (a JSON object) is a function from its keys to values.    *)
(*   type, description, pattern : a string                                 *)
(*   enum, required             : a sequence of strings                    *)
(*   properties                 : a sequence of [name, schema] entries     *)
(*                                (a JS object in key insertion order)     *)
(*   items                      : a node                                   *)
(*   $ref                       : a string, kept as a sequence of tokens   *)
(*   anyOf, oneOf, allOf        : a sequence of nodes                      *)
(*   additionalProperties       : a node, or one of ApTrue/ApFalse/ApUndef *)
(* An ordered map (definitions, components.schemas) is a sequence of       *)
(* [name, schema] entries with pairwise distinct names.                    *)
(***************************************************************************)
EXTENDS Integers, Sequences, FiniteSets, TLC

VARIABLES
    source,          \* what typescript-json-schema prints for types.ts (fixed per behaviour)
    pc,              \* position of main()
    run,             \* number of the current call of main() in this process
    jsonSchema,      \* main: const jsonSchema
    definitions,     \* convertJsonSchemaToOpenApi: const definitions
    idx,             \* convertJsonSchemaToOpenApi: position of the for-of loop
    openApiSchemas,  \* convertJsonSchemaToOpenApi: const openApiSchemas
    openApiSpec,     \* module-level const openApiSpec
    yamlStr,         \* main: const yamlStr
    outFile,         \* contents of OUTPUT_PATH
    writes,          \* number of completed fs.writeFileSync calls
    trace,           \* phases entered by the current call of main(), in order
    exitCode,        \* process exit code, -1 while the process runs
    firstDoc,        \* openApiSpec and the file as the first call of main() left them
    console,         \* what console.log and console.error have printed, in order
    schemaMappingTable  \* module-level const schemaMapping

vars == <<source, pc, run, jsonSchema, definitions, idx, openApiSchemas,
          openApiSpec, yamlStr, outFile, writes, trace, exitCode, firstDoc, console,
          schemaMappingTable>>

----------------------------------------------------------------------------
(* Bounds *)

MaxDefs == 2    \* most definitions in one extracted graph
MaxRuns == 2    \* most calls of main() in one process

----------------------------------------------------------------------------
(* JavaScript values *)

Undefined == "#undefined"                 \* the value undefined in a string slot
Null      == [null |-> TRUE]              \* the value null in a node slot
ApTrue    == [boolean |-> TRUE]           \* additionalProperties: true
ApFalse   == [boolean |-> FALSE]          \* additionalProperties: false
ApUndef   == [undefined |-> TRUE]         \* additionalProperties: undefined
NoFile    == [absent |-> TRUE]            \* no document

Has(n, k) == k \in DOMAIN n
IsNull(n) == Has(n, "null")
IsApLiteral(v) == Has(v, "boolean") \/ Has(v, "undefined")

\* if (x) on a string-valued slot
Truthy(n, k) == Has(n, k) /\ n[k] # "" /\ n[k] # Undefined

\* obj[k] = v
Put(n, k, v) == (k :> v) @@ n


\* the empty object {}
EmptyObj == [x \in {} |-> TRUE]

UnionKeys == <<"anyOf", "oneOf", "allOf">>

----------------------------------------------------------------------------
(* Ordered maps *)

Names(m) == {m[i].name : i \in 1..Len(m)}
HasKey(m, k) == \E i \in 1..Len(m) : m[i].name = k
IndexOf(m, k) == CHOOSE i \in 1..Len(m) : m[i].name = k
Get(m, k) == m[IndexOf(m, k)].schema

\* m[k] = v : an existing key keeps its position, a new key goes last
MapSet(m, k, v) ==
    IF HasKey(m, k)
    THEN [m EXCEPT ![IndexOf(m, k)] = [name |-> k, schema |-> v]]
    ELSE Append(m, [name |-> k, schema |-> v])

P(n, s) == [name |-> n, schema |-> s]

\* Object.keys(m)
Keys(m) == [i \in 1..Len(m) |-> m[i].name]

----------------------------------------------------------------------------
(* $ref strings: a sequence of tokens, the concatenation of which is the   *)
(* string.                                                                 *)

DefPrefix  == "#/definitions/"
CompPrefix == "#/components/schemas/"

RECURSIVE ReplaceFirst(_, _)
\* String.prototype.replace(tok, ''): removes the first occurrence only
ReplaceFirst(s, tok) ==
    IF s = <<>> THEN <<>>
    ELSE IF Head(s) = tok THEN Tail(s)
    ELSE <<Head(s)>> \o ReplaceFirst(Tail(s), tok)

DefRef(name)  == [x \in {"$ref"} |-> <<DefPrefix, name>>]
CompRef(name) == [x \in {"$ref"} |-> <<CompPrefix, name>>]

----------------------------------------------------------------------------
(* convertSchemaObject *)

RECURSIVE ThrowsOnShapeless(_)
\* as if convertSchemaObject rejected a node with none of type, $ref, enum,
\* properties
ThrowsOnShapeless(schema) ==
    IF IsNull(schema) THEN TRUE
    ELSE
        \/ DOMAIN schema \cap {"type", "$ref", "enum", "properties"} = {}
        \/ /\ Has(schema, "properties")
           /\ \E i \in 1..Len(schema.properties) :
                 ThrowsOnShapeless(schema.properties[i].schema)
        \/ /\ Has(schema, "type") /\ schema.type = "array"
           /\ Has(schema, "items") /\ ~IsNull(schema.items)
           /\ ThrowsOnShapeless(schema.items)

RECURSIVE Throws(_)
\* convertSchemaObject(schema) raises a TypeError: it reads schema.type of
\* null, in this call or in one of the recursive calls it makes. The calls
\* for properties and items come before the return for $ref.
Throws(schema) ==
    IF IsNull(schema) THEN TRUE
    ELSE
        \/ /\ Has(schema, "properties")
           /\ \E i \in 1..Len(schema.properties) : Throws(schema.properties[i].schema)
        \/ /\ Has(schema, "type") /\ schema.type = "array"
           /\ Has(schema, "items") /\ ~IsNull(schema.items)
           /\ Throws(schema.items)
        \/ /\ ~Has(schema, "$ref")
           /\ \/ \E u \in 1..3 :
                    /\ Has(schema, UnionKeys[u])
                    /\ \E i \in 1..Len(schema[UnionKeys[u]]) : Throws(schema[UnionKeys[u]][i])
              \/ /\ Has(schema, "additionalProperties")
                 /\ ~IsApLiteral(schema.additionalProperties)
                 /\ Throws(schema.additionalProperties)

RECURSIVE convertSchemaObject(_)

\* if (schema.k) converted.k = schema.k, for a string-valued k
CopyTruthy(converted, schema, k) ==
    IF Truthy(schema, k) THEN Put(converted, k, schema[k]) ELSE converted

\* as if every basic key the raw node has were copied, empty strings included
CopyBasicPresent(schema) ==
    [k \in DOMAIN schema \cap {"type", "description", "pattern", "enum"} |-> schema[k]]

\* as if every scalar keyword of the raw node were copied
CopyBasicSpread(schema) ==
    [k \in DOMAIN schema \ {"properties", "required", "items", "$ref", "anyOf",
                             "oneOf", "allOf", "additionalProperties"} |-> schema[k]]

\* lines 321-325: type, description, pattern, enum
CopyBasic(schema) ==
    LET c1 == CopyTruthy(EmptyObj, schema, "type")
        c2 == CopyTruthy(c1, schema, "description")
        c3 == CopyTruthy(c2, schema, "pattern")
    IN  IF Has(schema, "enum") THEN Put(c3, "enum", schema.enum) ELSE c3

\* as if the required properties were emitted before the optional ones
ConvertPropertiesRequiredFirst(converted, schema) ==
    IF Has(schema, "properties")
    THEN LET Required(e) == /\ Has(schema, "required")
                            /\ \E k \in 1..Len(schema.required) :
                                  schema.required[k] = e.name
             Optional(e) == ~Required(e)
             ordered == SelectSeq(schema.properties, Required)
                           \o SelectSeq(schema.properties, Optional)
         IN  Put(converted, "properties",
                 [i \in 1..Len(ordered) |->
                     P(ordered[i].name, convertSchemaObject(ordered[i].schema))])
    ELSE converted

\* lines 327-333
ConvertProperties(converted, schema) ==
    IF Has(schema, "properties")
    THEN Put(converted, "properties",
             [i \in 1..Len(schema.properties) |->
                 P(schema.properties[i].name,
                   convertSchemaObject(schema.properties[i].schema))])
    ELSE converted

\* as if every declared property were listed as required
CopyRequiredAll(converted, schema) ==
    IF Has(schema, "properties") /\ Len(schema.properties) > 0
    THEN Put(converted, "required", Keys(schema.properties))
    ELSE converted

\* lines 335-338
CopyRequired(converted, schema) ==
    IF Has(schema, "required") /\ Len(schema.required) > 0
    THEN Put(converted, "required", schema.required)
    ELSE converted

\* lines 340-343
ConvertItems(converted, schema) ==
    IF /\ Has(schema, "type") /\ schema.type = "array"
       /\ Has(schema, "items") /\ ~IsNull(schema.items)
    THEN Put(converted, "items", convertSchemaObject(schema.items))
    ELSE converted

\* as if a reference to a definition of the graph were expanded into the
\* basic keys of that definition's body
ConvertRefInline(schema) ==
    LET target == ReplaceFirst(schema["$ref"], DefPrefix)
    IN  IF Len(target) = 1 /\ HasKey(definitions, target[1])
           /\ ~IsNull(Get(definitions, target[1]))
        THEN CopyBasic(Get(definitions, target[1]))
        ELSE [x \in {"$ref"} |-> <<CompPrefix>> \o target]

\* as if the description next to a reference were kept
ConvertRefKeepDescription(schema) ==
    CopyTruthy([x \in {"$ref"} |-> <<CompPrefix>> \o ReplaceFirst(schema["$ref"], DefPrefix)],
               schema, "description")

\* lines 345-349: the node returned for a reference
ConvertRef(schema) ==
    [x \in {"$ref"} |-> <<CompPrefix>> \o ReplaceFirst(schema["$ref"], DefPrefix)]

\* as if a union of bare string literals were collapsed into one enum
ConvertUnionsCollapse(converted, schema) ==
    LET Variants(k) == [i \in 1..Len(schema[k]) |-> convertSchemaObject(schema[k][i])]
        Literals(k) == \A i \in 1..Len(schema[k]) :
                          /\ DOMAIN schema[k][i] = {"type", "enum"}
                          /\ Len(schema[k][i].enum) = 1
        Keep(c, k) == IF ~Has(schema, k) THEN c
                      ELSE IF Literals(k)
                      THEN Put(Put(c, "type", "string"), "enum",
                               [i \in 1..Len(schema[k]) |-> schema[k][i].enum[1]])
                      ELSE Put(c, k, Variants(k))
    IN  Keep(Keep(Keep(converted, "anyOf"), "oneOf"), "allOf")

\* as if every union were emitted under oneOf
ConvertUnionsOneOf(converted, schema) ==
    LET Variants(k) == [i \in 1..Len(schema[k]) |-> convertSchemaObject(schema[k][i])]
        c1 == IF Has(schema, "anyOf") THEN Put(converted, "oneOf", Variants("anyOf"))
              ELSE converted
        c2 == IF Has(schema, "oneOf") THEN Put(c1, "oneOf", Variants("oneOf")) ELSE c1
    IN  IF Has(schema, "allOf") THEN Put(c2, "oneOf", Variants("allOf")) ELSE c2

\* as if a {type: null} variant were folded away (a nullable shorthand)
ConvertUnionsNullable(converted, schema) ==
    LET NotNull(v) == v # [type |-> "null"]
        Variants(k) == LET kept == SelectSeq(schema[k], NotNull)
                       IN  [i \in 1..Len(kept) |-> convertSchemaObject(kept[i])]
        c1 == IF Has(schema, "anyOf") THEN Put(converted, "anyOf", Variants("anyOf"))
              ELSE converted
        c2 == IF Has(schema, "oneOf") THEN Put(c1, "oneOf", Variants("oneOf")) ELSE c1
    IN  IF Has(schema, "allOf") THEN Put(c2, "allOf", Variants("allOf")) ELSE c2

\* lines 351-360
ConvertUnions(converted, schema) ==
    LET Variants(k) == [i \in 1..Len(schema[k]) |-> convertSchemaObject(schema[k][i])]
        c1 == IF Has(schema, "anyOf") THEN Put(converted, "anyOf", Variants("anyOf"))
              ELSE converted
        c2 == IF Has(schema, "oneOf") THEN Put(c1, "oneOf", Variants("oneOf")) ELSE c1
    IN  IF Has(schema, "allOf") THEN Put(c2, "allOf", Variants("allOf")) ELSE c2

\* as if additionalProperties: false were copied like true
ConvertAdditionalPropertiesLiteral(converted, schema) ==
    LET c1 == IF /\ Has(schema, "type") /\ schema.type = "object"
                 /\ Cardinality(DOMAIN schema) = 1
              THEN Put(converted, "additionalProperties", ApTrue)
              ELSE converted
    IN  IF Has(schema, "additionalProperties")
        THEN Put(c1, "additionalProperties",
                 IF IsApLiteral(schema.additionalProperties)
                 THEN schema.additionalProperties
                 ELSE convertSchemaObject(schema.additionalProperties))
        ELSE c1

\* lines 362-372
ConvertAdditionalProperties(converted, schema) ==
    LET c1 == IF /\ Has(schema, "type") /\ schema.type = "object"
                 /\ Cardinality(DOMAIN schema) = 1
              THEN Put(converted, "additionalProperties", ApTrue)
              ELSE converted
    IN  IF Has(schema, "additionalProperties")
        THEN Put(c1, "additionalProperties",
                 IF schema.additionalProperties = ApFalse THEN ApUndef
                 ELSE IF schema.additionalProperties = ApTrue THEN ApTrue
                 ELSE convertSchemaObject(schema.additionalProperties))
        ELSE c1

\* lines 318-375, for a schema on which it does not throw
convertSchemaObject(schema) ==
    LET c1 == CopyBasic(schema)
        c2 == ConvertProperties(c1, schema)
        c3 == CopyRequired(c2, schema)
        c4 == ConvertItems(c3, schema)
    IN  IF Has(schema, "$ref")
        THEN ConvertRef(schema)
        ELSE ConvertAdditionalProperties(ConvertUnions(c4, schema), schema)

----------------------------------------------------------------------------
(* The override rules of convertJsonSchemaToOpenApi *)

MappedNames == {"Address", "Amount", "AssetLockReference", "AvailableInput",
                "RequestedOutput", "RequestedOutputDetails", "QuotePreference",
                "GetQuoteRequest", "Eip712Order", "QuoteDetails", "Quote",
                "GetQuoteResponse", "IntentRequest", "IntentResponse"}

AddressDescription == "ERC-7930 interoperable address"
AmountDescription == "Integer encoded as a string to preserve precision (e.g., uint256)"
LockDescription == "Reference to a lock in a locking system"
Eip712Description == "EIP-712 typed data for execution"

\* lines 15-58: the table as the module defines it
SchemaMappingLiteral ==
    [name \in MappedNames |->
        [description |->
            CASE name = "Address" -> AddressDescription
              [] name = "Amount" -> AmountDescription
              [] name = "AssetLockReference" -> LockDescription
              [] name = "Eip712Order" -> Eip712Description
              [] OTHER -> Undefined]]

\* schemaMapping[name] || {}
schemaMapping(name) ==
    IF name \in DOMAIN schemaMappingTable THEN schemaMappingTable[name] ELSE EmptyObj

AddressLiteral == [type |-> "string", description |-> AddressDescription]
AmountLiteral == [type |-> "string", description |-> AmountDescription,
                  pattern |-> "^[0-9]+$"]
QuotePreferenceLiteral ==
    [type |-> "string",
     enum |-> <<"price", "speed", "input-priority", "trust-minimization">>]
QuoteDetailsInputsLiteral ==
    [type |-> "array",
     items |-> [type |-> "object",
                properties |-> <<P("user", CompRef("Address")),
                                 P("asset", CompRef("Address")),
                                 P("amount", CompRef("Amount")),
                                 P("lockType",
                                   [type |-> "string",
                                    enum |-> <<"the-compact">>,
                                    description |-> "If empty, the asset needs to be escrowed"])>>,
                required |-> <<"user", "asset", "amount">>]]

\* if (convertedSchema.properties) { if (convertedSchema.properties.p) ... }
HasProp(n, p) == Has(n, "properties") /\ HasKey(n.properties, p)
SetProp(n, p, v) == Put(n, "properties", MapSet(n.properties, p, v))
\* as if the reference were added to the schema the property already has
ForceRefMerge(n, p, target) ==
    CHOOSE r \in {IF HasProp(m, p)
                  THEN SetProp(m, p, CompRef(target) @@ Get(m.properties, p))
                  ELSE m : m \in {n}} : TRUE

\* as if the rule created a property the properties map lacks
ForceRefCreate(n, p, target) ==
    CHOOSE r \in {IF Has(m, "properties") THEN SetProp(m, p, CompRef(target)) ELSE m :
                     m \in {n}} : TRUE

\* convertedSchema.properties.p = { '$ref': '#/components/schemas/target' }
\* (m is the object n refers to, evaluated once)
ForceRef(n, p, target) ==
    CHOOSE r \in {IF HasProp(m, p) THEN SetProp(m, p, CompRef(target)) ELSE m : m \in {n}} :
        TRUE
\* as if the enum values were pushed onto the property's list
SetFieldPush(n, p, k, v) ==
    CHOOSE r \in {IF ~HasProp(m, p) THEN m
                  ELSE LET old == Get(m.properties, p)
                       IN  SetProp(m, p, IF k = "enum" /\ Has(old, "enum")
                                         THEN Put(old, k, old.enum \o v)
                                         ELSE Put(old, k, v)) : m \in {n}} : TRUE

\* as if a key the property already has were kept
SetFieldKeep(n, p, k, v) ==
    CHOOSE r \in {IF HasProp(m, p) /\ ~Has(Get(m.properties, p), k)
                  THEN SetProp(m, p, Put(Get(m.properties, p), k, v))
                  ELSE m : m \in {n}} : TRUE

\* convertedSchema.properties.p.k = v
SetField(n, p, k, v) ==
    CHOOSE r \in {IF HasProp(m, p)
                  THEN SetProp(m, p, Put(Get(m.properties, p), k, v))
                  ELSE m : m \in {n}} : TRUE

\* lines 157-160: the description of the schemaMapping entry
ApplyMappingDescription(name, convertedSchema) ==
    IF Truthy(schemaMapping(name), "description")
    THEN Put(convertedSchema, "description", schemaMapping(name).description)
    ELSE convertedSchema

\* as if the literal of a replaced type were merged into the converted schema
ApplySpecialHandlingMerge(name, c) ==
    CASE name = "Address" -> AddressLiteral @@ c
      [] name = "Amount" -> AmountLiteral @@ c
      [] name = "QuotePreference" -> QuotePreferenceLiteral @@ c
      [] OTHER -> c

\* lines 162-312: the branch of the type, the value stored under the name
ApplySpecialHandling(name, c) ==
    CASE name = "Address" -> AddressLiteral
      [] name = "Amount" -> AmountLiteral
      [] name = "AssetLockReference" ->
            IF Has(c, "properties")
            THEN SetField(
                   SetField(Put(c, "description", LockDescription),
                            "kind", "enum", <<"the-compact", "rhinestone">>),
                   "params", "description", "Lock-specific parameters")
            ELSE c
      [] name = "AvailableInput" ->
            ForceRef(ForceRef(ForceRef(ForceRef(c, "user", "Address"),
                "asset", "Address"), "amount", "Amount"), "lock", "AssetLockReference")
      [] name = "RequestedOutput" ->
            SetField(ForceRef(ForceRef(ForceRef(c, "receiver", "Address"),
                "asset", "Address"), "amount", "Amount"),
                "calldata", "description",
                "Optional calldata describing how the receiver will consume the output")
      [] name = "RequestedOutputDetails" ->
            ForceRef(ForceRef(ForceRef(c, "user", "Address"),
                "asset", "Address"), "amount", "Amount")
      [] name = "QuotePreference" -> QuotePreferenceLiteral
      [] name = "GetQuoteRequest" ->
            ForceRef(
              SetField(
                SetField(ForceRef(c, "user", "Address"),
                         "availableInputs", "description",
                         "Order of inputs is significant if preference is 'input-priority'"),
                "minValidUntil", "description", "Minimum validity timestamp (seconds)"),
              "preference", "QuotePreference")
      [] name = "Eip712Order" -> ForceRef(c, "domain", "Address")
      [] name = "QuoteDetails" ->
            IF HasProp(c, "availableInputs")
            THEN SetProp(c, "availableInputs", QuoteDetailsInputsLiteral)
            ELSE c
      [] name = "Quote" ->
            SetField(SetField(c, "validUntil", "description",
                              "Quote validity timestamp (seconds)"),
                     "eta", "description", "Estimated time of arrival (seconds)")
      [] name = "IntentRequest" ->
            SetField(SetField(c, "order", "description",
                              "EIP-712 typed data for a gasless cross-chain order"),
                     "signature", "description", Undefined)
      [] name = "IntentResponse" ->
            SetField(c, "orderId", "description", "Assigned order identifier if accepted")
      [] OTHER -> c

\* lines 157-312 for one definition: what openApiSchemas[name] becomes
ApplyOverrides(name, convertedSchema) ==
    ApplySpecialHandling(name, ApplyMappingDescription(name, convertedSchema))

----------------------------------------------------------------------------
(* The document template, openApiSpec of lines 61-130 *)

Response(status, description) == [status |-> status, description |-> description]
ResponseWith(status, description, name) ==
    [status |-> status, description |-> description, schema |-> CompRef(name)]

Paths ==
    << [path |-> "/v1/quote", method |-> "post",
        summary |-> "Generate executable quotes for requested outputs given available inputs.",
        requestBody |-> [required |-> TRUE, schema |-> CompRef("GetQuoteRequest")],
        responses |-> << ResponseWith("200", "Quotes successfully generated", "GetQuoteResponse"),
                         Response("400", "Malformed request"),
                         Response("422", "Inputs cannot satisfy requested outputs") >>],
       [path |-> "/v1/intent", method |-> "post",
        summary |-> "Submit a previously quoted, signed order for execution.",
        requestBody |-> [required |-> TRUE, schema |-> CompRef("IntentRequest")],
        responses |-> << ResponseWith("200", "Intent accepted", "IntentResponse"),
                         Response("400", "Malformed request"),
                         Response("422", "Invalid signature or order") >>] >>

Template ==
    [openapi |-> "3.0.0",
     info |-> [title |-> "OIF API", version |-> "0.1.0",
               description |-> "API specifications for OIF protocol covering quote generation and intent submission.\nAmount fields are strings representing integers (e.g., uint256) to preserve precision across transports."],
     servers |-> << [url |-> "https://api.example.com"] >>,
     tags |-> << [name |-> "quote", description |-> "Quote generation"],
                 [name |-> "intent", description |-> "Intent submission"] >>,
     paths |-> Paths,
     components |-> [schemas |-> <<>>]]

----------------------------------------------------------------------------
(* yaml.dump: the serializer keeps the document's structure and order      *)
(* (sortKeys: false, noRefs: true). A key whose value is undefined is left *)
(* out by js-yaml 4 and makes js-yaml 3 throw.                             *)

RECURSIVE HasUndefined(_)
HasUndefined(n) ==
    \/ \E k \in DOMAIN n \cap {"type", "description", "pattern"} : n[k] = Undefined
    \/ /\ Has(n, "properties")
       /\ \E i \in 1..Len(n.properties) : HasUndefined(n.properties[i].schema)
    \/ Has(n, "items") /\ HasUndefined(n.items)
    \/ \E u \in 1..3 : /\ Has(n, UnionKeys[u])
                       /\ \E i \in 1..Len(n[UnionKeys[u]]) : HasUndefined(n[UnionKeys[u]][i])
    \/ /\ Has(n, "additionalProperties")
       /\ \/ n.additionalProperties = ApUndef
          \/ ~IsApLiteral(n.additionalProperties) /\ HasUndefined(n.additionalProperties)

RECURSIVE DumpNode(_)
DumpNode(n) ==
    LET keep == {k \in DOMAIN n :
                    /\ ~(k \in {"type", "description", "pattern"} /\ n[k] = Undefined)
                    /\ ~(k = "additionalProperties" /\ n[k] = ApUndef)}
    IN  [k \in keep |->
            CASE k = "properties" ->
                    [i \in 1..Len(n[k]) |-> P(n[k][i].name, DumpNode(n[k][i].schema))]
              [] k = "items" -> DumpNode(n[k])
              [] k \in {"anyOf", "oneOf", "allOf"} ->
                    [i \in 1..Len(n[k]) |-> DumpNode(n[k][i])]
              [] k = "additionalProperties" ->
                    IF IsApLiteral(n[k]) THEN n[k] ELSE DumpNode(n[k])
              [] OTHER -> n[k]]

DocHasUndefined(doc) ==
    \E i \in 1..Len(doc.components.schemas) :
        HasUndefined(doc.components.schemas[i].schema)

Dump(doc) ==
    [doc EXCEPT !.components.schemas =
        [i \in 1..Len(@) |-> P(@[i].name, DumpNode(@[i].schema))]]

RECURSIVE NodeRefs(_)
\* every $ref string of a node, at any depth
NodeRefs(n) ==
    (IF Has(n, "$ref") THEN {n["$ref"]} ELSE {})
    \cup (IF Has(n, "properties")
          THEN UNION {NodeRefs(n.properties[i].schema) : i \in 1..Len(n.properties)}
          ELSE {})
    \cup (IF Has(n, "items") THEN NodeRefs(n.items) ELSE {})
    \cup UNION {IF Has(n, UnionKeys[u])
                THEN UNION {NodeRefs(n[UnionKeys[u]][i]) : i \in 1..Len(n[UnionKeys[u]])}
                ELSE {} : u \in 1..3}
    \cup (IF Has(n, "additionalProperties") /\ ~IsApLiteral(n.additionalProperties)
          THEN NodeRefs(n.additionalProperties)
          ELSE {})

----------------------------------------------------------------------------
(* Extractor output: the raw definitions the runs are checked on *)

Str == [type |-> "string"]
Num == [type |-> "number"]
Obj == [type |-> "object"]
ArrayOf(n) == [type |-> "array", items |-> n]
Lit(v) == [type |-> "string", enum |-> <<v>>]
Object(props, req) == [type |-> "object", properties |-> props, required |-> req]

Pool ==
    << P("Address", [type |-> "string",
                     description |-> "EIP-7930 interoperable address",
                     pattern |-> "^0x[a-fA-F0-9]+$"]),
       P("Address", [type |-> "object", description |-> "chain and account",
                     properties |-> <<P("chain", Num)>>, required |-> <<"chain">>,
                     enum |-> <<"0x00">>]),
       P("Amount", [type |-> "string", description |-> "bigint",
                    pattern |-> "^-?[0-9]+$"]),
       P("QuotePreference",
         [type |-> "string",
          enum |-> <<"price", "speed", "input-priority", "trust-minimization">>]),
       P("QuotePreference",
         [description |-> "preference", pattern |-> "^[a-z]+$",
          anyOf |-> <<Lit("speed"), Lit("price")>>]),
       P("AssetLockReference",
         Object(<<P("kind", [type |-> "string", enum |-> <<"rhinestone", "the-compact">>]),
                  P("params", EmptyObj)>>, <<"kind">>)),
       P("AssetLockReference", Obj),
       P("AvailableInput",
         Object(<<P("user", DefRef("Address")), P("asset", DefRef("Address")),
                  P("amount", DefRef("Amount")),
                  P("lock", DefRef("AssetLockReference"))>>,
                <<"user", "asset", "amount">>)),
       P("AvailableInput",
         Object(<<P("amount", [type |-> "string", pattern |-> "^[0-9]+$"]),
                  P("user", [type |-> "string", description |-> "payer"])>>,
                <<"amount", "user">>)),
       P("RequestedOutput",
         Object(<<P("receiver", DefRef("Address")), P("asset", DefRef("Address")),
                  P("amount", DefRef("Amount")),
                  P("calldata", [type |-> "string", description |-> "calldata"])>>,
                <<"receiver", "asset", "amount">>)),
       P("RequestedOutputDetails",
         Object(<<P("user", Str), P("asset", Str), P("amount", Str)>>,
                <<"user", "asset", "amount">>)),
       P("GetQuoteRequest",
         Object(<<P("user", DefRef("Address")),
                  P("availableInputs", ArrayOf(DefRef("AvailableInput"))),
                  P("minValidUntil", Num),
                  P("preference", DefRef("QuotePreference"))>>,
                <<"user", "availableInputs">>)),
       P("Eip712Order",
         Object(<<P("domain", Obj), P("primaryType", Str), P("message", Obj)>>,
                <<"domain", "primaryType", "message">>)),
       P("QuoteDetails",
         Object(<<P("requestedOutputs", ArrayOf(DefRef("RequestedOutputDetails"))),
                  P("availableInputs", ArrayOf(DefRef("AvailableInput")))>>,
                <<"requestedOutputs", "availableInputs">>)),
       P("Quote",
         Object(<<P("orders", ArrayOf(DefRef("Eip712Order"))),
                  P("validUntil", Num), P("eta", Num)>>, <<"orders">>)),
       P("GetQuoteResponse",
         Object(<<P("quotes", ArrayOf(DefRef("Quote")))>>, <<"quotes">>)),
       P("IntentRequest",
         Object(<<P("order", Obj), P("signature", Obj), P("provider", Str)>>,
                <<"order", "signature", "provider">>)),
       P("IntentResponse",
         Object(<<P("orderId", Str), P("status", Str)>>, <<"status">>)),
       P("OrderType", [anyOf |-> <<Lit("swap-sell"), Lit("swap-buy")>>]),
       P("OrderType", [oneOf |-> <<Lit("swap-sell"), Lit("swap-buy")>>]),
       P("Order", [anyOf |-> <<DefRef("Quote"), DefRef("Eip712Order")>>]),
       P("Order", [oneOf |-> <<DefRef("Quote"), DefRef("Eip712Order")>>]),
       P("Order", [allOf |-> <<DefRef("Quote"), DefRef("Eip712Order")>>]),
       P("Unknown", EmptyObj),
       P("Unknown", [description |-> "anything", required |-> <<>>]),
       P("Broken", [type |-> "object", properties |-> <<P("x", Null)>>]),
       P("Node", Object(<<P("value", Str), P("next", DefRef("Node"))>>, <<"value">>)),
       P("Ping", Object(<<P("peer", DefRef("Pong"))>>, <<>>)),
       P("Pong", [type |-> "array", items |-> DefRef("Ping"), description |-> ""]),
       P("Alias", [x \in {"$ref", "description"} |->
                      IF x = "$ref" THEN <<DefPrefix, "Alias">> ELSE "itself"]),
       P("Imported", [x \in {"$ref"} |-> <<"types.json", DefPrefix, "Address">>]),
       P("Closed", [type |-> "object", additionalProperties |-> ApFalse]),
       P("Dict", [type |-> "object", additionalProperties |-> Str]),
       P("Metadata", [type |-> "object", description |-> "free-form"]),
       P("Empty", [type |-> "object", properties |-> <<>>]),
       P("Transfer",
         Object(<<P("to", DefRef("Address")), P("memo", DefRef("Note"))>>, <<"to">>)),
       P("Eip712Order",
         [type |-> "object", description |-> "typed data",
          properties |-> <<P("domain", DefRef("Domain")), P("types", Obj)>>,
          required |-> <<"domain">>]),
       P("AssetLockReference",
         [type |-> "object", description |-> "a lock",
          properties |-> <<P("kind", [type |-> "string", description |-> "lock kind",
                                      enum |-> <<"the-compact">>]),
                           P("params", [description |-> "anything"])>>,
          required |-> <<"kind">>]),
       P("QuoteDetails", Obj),
       P("Record", Obj),
       P("Receipt",
         [type |-> "object", title |-> "Receipt",
          properties |->
             <<P("total", [type |-> "number", minimum |-> 0, format |-> "double"]),
               P("id", [type |-> "string", format |-> "uuid"]),
               P("lines", ArrayOf(Object(<<P("sku", Str), P("qty", Num)>>, <<"qty">>))),
               P("note", [type |-> "string", description |-> ""])>>,
          required |-> <<"id">>]),
       P("Label", [type |-> "string", description |-> ""]),
       P("Code", [type |-> "string", pattern |-> "^[A-Z]$", enum |-> <<"B", "A">>,
                  description |-> "code", format |-> "upper", default |-> "A"]),
       P("Link", [x \in {"$ref", "type", "description", "properties", "required"} |->
                     CASE x = "$ref" -> <<DefPrefix, "Node">>
                       [] x = "type" -> "object"
                       [] x = "description" -> "a link"
                       [] x = "properties" ->
                             <<P("to", [x2 \in {"$ref", "type", "items"} |->
                                          CASE x2 = "$ref" -> <<DefPrefix, "Quote">>
                                            [] x2 = "type" -> "array"
                                            [] x2 = "items" -> Str])>>
                       [] x = "required" -> <<"to">>]),
       P("Maybe", [anyOf |-> <<DefRef("Quote"), [type |-> "null"]>>]),
       P("Mixed", [description |-> "mixed",
                   anyOf |-> <<DefRef("Quote"), Object(<<P("id", Str)>>, <<"id">>),
                               Lit("none")>>,
                   allOf |-> <<Obj>>]),
       P("Strict",
         [type |-> "object",
          properties |-> <<P("inner", [type |-> "object",
                                       additionalProperties |-> ApFalse])>>,
          additionalProperties |-> [type |-> "object", additionalProperties |-> ApTrue]]),
       P("Form",
         [type |-> "object", title |-> "Form",
          properties |->
             <<P("age", [type |-> "number", minimum |-> 0, format |-> "int32",
                         default |-> 18]),
               P("kind", [type |-> "string", const |-> "fixed"]),
               P("tags", ArrayOf([type |-> "string", format |-> "slug"]))>>,
          required |-> <<>>]) >>

\* The extracted graphs: one definition of Pool, or up to MaxDefs definitions
\* of Core in any order, with pairwise distinct names.
Core == {i \in 1..Len(Pool) :
            \/ Pool[i].name \in {"Amount", "GetQuoteRequest", "GetQuoteResponse",
                                 "IntentRequest", "OrderType", "Node", "Ping",
                                 "Pong", "Broken"}
            \/ i \in {1, 6, 8}}

RECURSIVE IndexSeqs(_)
IndexSeqs(n) ==
    IF n = 0 THEN {<<>>}
    ELSE LET shorter == IndexSeqs(n - 1)
         IN  shorter \cup
             {Append(ix, j) : ix \in {s \in shorter : Len(s) = n - 1}, j \in Core}

Injective(ix) ==
    \A i, j \in 1..Len(ix) : i # j => Pool[ix[i]].name # Pool[ix[j]].name

GraphIndices ==
    {ix \in IndexSeqs(MaxDefs) : Injective(ix)} \cup {<<i>> : i \in 1..Len(Pool)}

Graph(ix) == [i \in 1..Len(ix) |-> Pool[ix[i]]]

----------------------------------------------------------------------------
(* main *)

Phases == <<"EXTRACT", "NORMALIZE", "ASSEMBLE", "SERIALIZE">>

\* the lines main prints
StartingMessage == "Starting OpenAPI generation from TypeScript schemas..."
SuccessMessage == "OpenAPI spec generated successfully at: OUTPUT_PATH"
SchemasMessage == "Generated schemas:"
FailureMessage == "Error generating OpenAPI spec:"

\* console.log(text, args), console.error(text, error)
Log(text, args) == [level |-> "log", text |-> text, args |-> args]
Error(text) == [level |-> "error", text |-> text, args |-> <<>>]

Init ==
    /\ \E ix \in GraphIndices :
          \/ source = [definitions |-> Graph(ix)]
          \/ ix = <<>> /\ source = EmptyObj
    /\ pc = "idle"
    /\ run = 0
    /\ jsonSchema = EmptyObj
    /\ definitions = <<>>
    /\ idx = 1
    /\ openApiSchemas = <<>>
    /\ openApiSpec = Template
    /\ yamlStr = NoFile
    /\ outFile = NoFile
    /\ writes = 0
    /\ trace = <<>>
    /\ exitCode = -1
    /\ firstDoc = NoFile
    /\ console = <<>>
    /\ schemaMappingTable = SchemaMappingLiteral

\* line 413 (and a further call in the same process): main() is entered
Main ==
    /\ pc \in {"idle", "done"}
    /\ run < MaxRuns
    /\ run' = run + 1
    /\ trace' = <<>>
    /\ pc' = "generate"
    /\ console' = Append(console, Log(StartingMessage, <<>>))
    /\ UNCHANGED <<source, jsonSchema, definitions, idx, openApiSchemas,
                   openApiSpec, yamlStr, outFile, writes, exitCode, firstDoc,
                   schemaMappingTable>>

\* line 382, lines 132-141: the extractor prints the schema, or exec or
\* JSON.parse throws
GenerateJsonSchema ==
    /\ pc = "generate"
    /\ trace' = Append(trace, "EXTRACT")
    /\ \/ jsonSchema' = source /\ pc' = "convert"
       \/ jsonSchema' = jsonSchema /\ pc' = "catch"
    /\ UNCHANGED <<source, run, definitions, idx, openApiSchemas, openApiSpec,
                   yamlStr, outFile, writes, exitCode, firstDoc, console,
                   schemaMappingTable>>

\* lines 385, 143-147
ConvertBegin ==
    /\ pc = "convert"
    /\ trace' = Append(trace, "NORMALIZE")
    /\ openApiSchemas' = <<>>
    /\ definitions' = IF Has(jsonSchema, "definitions") THEN jsonSchema.definitions ELSE <<>>
    /\ idx' = 1
    /\ pc' = "loop"
    /\ UNCHANGED <<source, run, jsonSchema, openApiSpec, yamlStr, outFile,
                   writes, exitCode, firstDoc, console,
                   schemaMappingTable>>

\* as if the loop skipped a name the module-level document already holds
ConvertStepMemo ==
    /\ pc = "loop"
    /\ idx <= Len(definitions)
    /\ LET name == definitions[idx].name
           schema == definitions[idx].schema
       IN  IF HasKey(openApiSpec.components.schemas, name)
           THEN /\ idx' = idx + 1
                /\ UNCHANGED <<openApiSchemas, pc>>
           ELSE IF Throws(schema)
           THEN /\ pc' = "catch"
                /\ UNCHANGED <<openApiSchemas, idx>>
           ELSE /\ openApiSchemas' =
                      MapSet(openApiSchemas, name,
                             ApplyOverrides(name, convertSchemaObject(schema)))
                /\ idx' = idx + 1
                /\ pc' = pc
    /\ UNCHANGED <<source, run, jsonSchema, definitions, openApiSpec, yamlStr,
                   outFile, writes, trace, exitCode, firstDoc, console,
                   schemaMappingTable>>

\* as if a definition waited until every type it refers to has its component
ConvertStepDepsFirst ==
    /\ pc = "loop"
    /\ idx <= Len(definitions)
    /\ LET name == definitions[idx].name
           schema == definitions[idx].schema
       IN  IF Throws(schema)
           THEN /\ pc' = "catch"
                /\ UNCHANGED <<openApiSchemas, idx>>
           ELSE LET component == ApplyOverrides(name, convertSchemaObject(schema))
                    ready == \A r \in NodeRefs(component) :
                                HasKey(definitions, r[Len(r)]) =>
                                    HasKey(openApiSchemas, r[Len(r)])
                IN  IF ready
                    THEN /\ openApiSchemas' = MapSet(openApiSchemas, name, component)
                         /\ idx' = idx + 1
                         /\ pc' = pc
                    ELSE UNCHANGED <<openApiSchemas, idx, pc>>
    /\ UNCHANGED <<source, run, jsonSchema, definitions, openApiSpec, yamlStr,
                   outFile, writes, trace, exitCode, firstDoc, console,
                   schemaMappingTable>>

\* as if the loop stored the converted description into the mapping entry
\* (mapping.description = convertedSchema.description)
ConvertStepWriteBack ==
    /\ pc = "loop"
    /\ idx <= Len(definitions)
    /\ LET name == definitions[idx].name
           schema == definitions[idx].schema
       IN  IF Throws(schema)
           THEN /\ pc' = "catch"
                /\ UNCHANGED <<openApiSchemas, idx, schemaMappingTable>>
           ELSE /\ openApiSchemas' =
                      MapSet(openApiSchemas, name,
                             ApplyOverrides(name, convertSchemaObject(schema)))
                /\ schemaMappingTable' =
                      IF /\ name \in DOMAIN schemaMappingTable
                         /\ Truthy(convertSchemaObject(schema), "description")
                      THEN [schemaMappingTable EXCEPT ![name].description =
                               convertSchemaObject(schema).description]
                      ELSE schemaMappingTable
                /\ idx' = idx + 1
                /\ pc' = pc
    /\ UNCHANGED <<source, run, jsonSchema, definitions, openApiSpec, yamlStr,
                   outFile, writes, trace, exitCode, firstDoc, console>>

\* as if the target of a forced reference were given its component when the
\* graph does not define it
ConvertStepWithTargets ==
    /\ pc = "loop"
    /\ idx <= Len(definitions)
    /\ LET name == definitions[idx].name
           schema == definitions[idx].schema
           Literal(t) == CASE t = "Address" -> AddressLiteral
                           [] t = "Amount" -> AmountLiteral
                           [] OTHER -> QuotePreferenceLiteral
           Missing(m, t) == /\ <<CompPrefix, t>> \in NodeRefs(Get(m, name))
                            /\ ~HasKey(definitions, t)
           Add(m, t) == IF Missing(m, t) THEN MapSet(m, t, Literal(t)) ELSE m
       IN  IF Throws(schema)
           THEN /\ pc' = "catch"
                /\ UNCHANGED <<openApiSchemas, idx>>
           ELSE /\ openApiSchemas' =
                      Add(Add(Add(MapSet(openApiSchemas, name,
                                         ApplyOverrides(name, convertSchemaObject(schema))),
                                  "Address"), "Amount"), "QuotePreference")
                /\ idx' = idx + 1
                /\ pc' = pc
    /\ UNCHANGED <<source, run, jsonSchema, definitions, openApiSpec, yamlStr,
                   outFile, writes, trace, exitCode, firstDoc, console,
                   schemaMappingTable>>

\* as if the description of a mapping entry stayed in force for the
\* definitions after it (a variable declared outside the loop)
ConvertStepCarry ==
    /\ pc = "loop"
    /\ idx <= Len(definitions)
    /\ LET name == definitions[idx].name
           schema == definitions[idx].schema
           described == {i \in 1..idx :
                            Truthy(schemaMapping(definitions[i].name), "description")}
           carried == IF described = {} THEN name
                      ELSE definitions[CHOOSE i \in described :
                                          \A j \in described : j <= i].name
       IN  IF Throws(schema)
           THEN /\ pc' = "catch"
                /\ UNCHANGED <<openApiSchemas, idx>>
           ELSE /\ openApiSchemas' =
                      MapSet(openApiSchemas, name,
                             ApplySpecialHandling(name,
                                 ApplyMappingDescription(carried,
                                                         convertSchemaObject(schema))))
                /\ idx' = idx + 1
                /\ pc' = pc
    /\ UNCHANGED <<source, run, jsonSchema, definitions, openApiSpec, yamlStr,
                   outFile, writes, trace, exitCode, firstDoc, console,
                   schemaMappingTable>>

\* as if the overrides were applied to the raw node of the definitions map
ConvertStepInPlace ==
    /\ pc = "loop"
    /\ idx <= Len(definitions)
    /\ LET name == definitions[idx].name
           schema == definitions[idx].schema
       IN  IF Throws(schema)
           THEN /\ pc' = "catch"
                /\ UNCHANGED <<openApiSchemas, idx, definitions>>
           ELSE /\ openApiSchemas' =
                      MapSet(openApiSchemas, name,
                             ApplyOverrides(name, convertSchemaObject(schema)))
                /\ definitions' =
                      [definitions EXCEPT ![idx] =
                          P(name, ApplyOverrides(name, convertSchemaObject(schema)))]
                /\ idx' = idx + 1
                /\ pc' = pc
    /\ UNCHANGED <<source, run, jsonSchema, openApiSpec, yamlStr,
                   outFile, writes, trace, exitCode, firstDoc, console,
                   schemaMappingTable>>

\* lines 150-313: one iteration of the loop over the definitions
ConvertStep ==
    /\ pc = "loop"
    /\ idx <= Len(definitions)
    /\ LET name == definitions[idx].name
           schema == definitions[idx].schema
       IN  IF Throws(schema)
           THEN /\ pc' = "catch"
                /\ UNCHANGED <<openApiSchemas, idx>>
           ELSE /\ openApiSchemas' =
                      MapSet(openApiSchemas, name,
                             ApplyOverrides(name, convertSchemaObject(schema)))
                /\ idx' = idx + 1
                /\ pc' = pc
    /\ UNCHANGED <<source, run, jsonSchema, definitions, openApiSpec, yamlStr,
                   outFile, writes, trace, exitCode, firstDoc, console,
                   schemaMappingTable>>

\* the order in which the zod-based generator registers its components
PreferenceList ==
    <<"Address", "Amount", "OrderType", "AssetLockReference", "AvailableInput",
      "RequestedOutput", "RequestedOutputDetails", "QuotePreference",
      "GetQuoteRequest", "Eip712Order", "QuoteDetails", "Quote", "GetQuoteResponse",
      "IntentRequest", "IntentResponse", "IntentResponseStatus">>

\* the components named in PreferenceList in that list's order, then the
\* others in the order of m
ByPreference(m) ==
    LET Listed(n) == HasKey(m, n)
        Preferred(e) == \E k \in 1..Len(PreferenceList) : PreferenceList[k] = e.name
        Other(e) == ~Preferred(e)
        first == SelectSeq(PreferenceList, Listed)
    IN  [k \in 1..Len(first) |-> P(first[k], Get(m, first[k]))] \o SelectSeq(m, Other)

\* as if assembly emitted the components of the preference list first
AssembleByPreference ==
    /\ pc = "loop"
    /\ idx > Len(definitions)
    /\ trace' = Append(trace, "ASSEMBLE")
    /\ openApiSpec' = [openApiSpec EXCEPT !.components.schemas = ByPreference(openApiSchemas)]
    /\ pc' = "dump"
    /\ UNCHANGED <<source, run, jsonSchema, definitions, idx, openApiSchemas,
                   yamlStr, outFile, writes, exitCode, firstDoc, console,
                   schemaMappingTable>>

\* as if assembly dropped the operations that bind a missing component
AssembleBoundOperations ==
    /\ pc = "loop"
    /\ idx > Len(definitions)
    /\ trace' = Append(trace, "ASSEMBLE")
    /\ LET Bound(op) ==
               /\ HasKey(openApiSchemas, op.requestBody.schema["$ref"][2])
               /\ \A j \in 1..Len(op.responses) :
                     Has(op.responses[j], "schema") =>
                        HasKey(openApiSchemas, op.responses[j].schema["$ref"][2])
       IN  openApiSpec' = [openApiSpec EXCEPT !.components.schemas = openApiSchemas,
                                              !.paths = SelectSeq(@, Bound)]
    /\ pc' = "dump"
    /\ UNCHANGED <<source, run, jsonSchema, definitions, idx, openApiSchemas,
                   yamlStr, outFile, writes, exitCode, firstDoc, console,
                   schemaMappingTable>>

\* lines 315, 388: the component map is returned and put into the template
Assemble ==
    /\ pc = "loop"
    /\ idx > Len(definitions)
    /\ trace' = Append(trace, "ASSEMBLE")
    /\ openApiSpec' = [openApiSpec EXCEPT !.components.schemas = openApiSchemas]
    /\ pc' = "dump"
    /\ UNCHANGED <<source, run, jsonSchema, definitions, idx, openApiSchemas,
                   yamlStr, outFile, writes, exitCode, firstDoc, console,
                   schemaMappingTable>>

\* as if the serializer removed the undefined-valued keys from the document
\* itself
YamlDumpInPlace ==
    /\ pc = "dump"
    /\ trace' = Append(trace, "SERIALIZE")
    /\ \/ yamlStr' = Dump(openApiSpec) /\ openApiSpec' = Dump(openApiSpec) /\ pc' = "write"
       \/ /\ DocHasUndefined(openApiSpec)
          /\ yamlStr' = yamlStr /\ openApiSpec' = openApiSpec /\ pc' = "catch"
    /\ UNCHANGED <<source, run, jsonSchema, definitions, idx, openApiSchemas,
                   outFile, writes, exitCode, firstDoc, console,
                   schemaMappingTable>>

\* lines 391-398: yaml.dump
YamlDump ==
    /\ pc = "dump"
    /\ trace' = Append(trace, "SERIALIZE")
    /\ \/ yamlStr' = Dump(openApiSpec) /\ pc' = "write"
       \/ DocHasUndefined(openApiSpec) /\ yamlStr' = yamlStr /\ pc' = "catch"
    /\ UNCHANGED <<source, run, jsonSchema, definitions, idx, openApiSchemas,
                   openApiSpec, outFile, writes, exitCode, firstDoc, console,
                   schemaMappingTable>>

\* line 401: fs.writeFileSync writes the file, or throws and leaves it
WriteFile ==
    /\ pc = "write"
    /\ \/ outFile' = yamlStr /\ writes' = writes + 1 /\ pc' = "log"
       \/ UNCHANGED <<outFile, writes>> /\ pc' = "catch"
    /\ UNCHANGED <<source, run, jsonSchema, definitions, idx, openApiSchemas,
                   openApiSpec, yamlStr, trace, exitCode, firstDoc, console,
                   schemaMappingTable>>

\* lines 403-404: main returns
Finish ==
    /\ pc = "log"
    /\ pc' = "done"
    /\ firstDoc' = IF run = 1 THEN [doc |-> openApiSpec, text |-> outFile] ELSE firstDoc
    /\ console' = console \o <<Log(SuccessMessage, <<>>),
                                Log(SchemasMessage, Keys(openApiSchemas))>>
    /\ UNCHANGED <<source, run, jsonSchema, definitions, idx, openApiSchemas,
                   openApiSpec, yamlStr, outFile, writes, trace, exitCode,
                   schemaMappingTable>>

\* as if the catch block only logged the error and main returned
CatchNoExit ==
    /\ pc = "catch"
    /\ pc' = "done"
    /\ UNCHANGED <<source, run, jsonSchema, definitions, idx, openApiSchemas,
                   openApiSpec, yamlStr, outFile, writes, trace, exitCode, firstDoc, console,
                   schemaMappingTable>>

\* lines 405-408: console.error, process.exit(1)
Catch ==
    /\ pc = "catch"
    /\ exitCode' = 1
    /\ pc' = "exited"
    /\ console' = Append(console, Error(FailureMessage))
    /\ UNCHANGED <<source, run, jsonSchema, definitions, idx, openApiSchemas,
                   openApiSpec, yamlStr, outFile, writes, trace, firstDoc,
                   schemaMappingTable>>

Next ==
    \/ Main
    \/ GenerateJsonSchema
    \/ ConvertBegin
    \/ ConvertStep
    \/ Assemble
    \/ YamlDump
    \/ WriteFile
    \/ Finish
    \/ Catch

Spec == Init /\ [][Next]_vars

\* main runs to its end: each step of the synchronous code is taken
FairSpec == Spec /\ WF_vars(Next)

TypeOK ==
    /\ pc \in {"idle", "generate", "convert", "loop", "dump", "write", "log",
               "done", "catch", "exited"}
    /\ run \in 0..MaxRuns
    /\ idx \in 1..(MaxDefs + 1)
    /\ writes \in 0..MaxRuns
    /\ exitCode \in {-1, 1}

----------------------------------------------------------------------------
(* Vocabulary of the properties *)

Entered(phase) == \E i \in 1..Len(trace) : trace[i] = phase
Last(seq) == seq[Len(seq)]
IsPrefix(s, t) == Len(s) <= Len(t) /\ \A i \in 1..Len(s) : s[i] = t[i]

\* the definitions the loop of the current run has gone through
Processed == IF pc = "loop" \/ Entered("ASSEMBLE") THEN 1..(idx - 1) ELSE {}

\* the request and response bindings of the operations
PathRefs(doc) ==
    UNION {{doc.paths[i].requestBody.schema["$ref"]}
           \cup {doc.paths[i].responses[j].schema["$ref"] :
                    j \in {k \in 1..Len(doc.paths[i].responses) :
                              Has(doc.paths[i].responses[k], "schema")}}
           : i \in 1..Len(doc.paths)}

ComponentRefs(doc) ==
    UNION {NodeRefs(doc.components.schemas[i].schema) :
              i \in 1..Len(doc.components.schemas)}

Resolves(ref, doc) ==
    /\ Len(ref) = 2
    /\ ref[1] = CompPrefix
    /\ HasKey(doc.components.schemas, ref[2])

RECURSIVE ContainsNull(_)
ContainsNull(n) ==
    \/ IsNull(n)
    \/ Has(n, "properties")
       /\ \E i \in 1..Len(n.properties) : ContainsNull(n.properties[i].schema)
    \/ Has(n, "items") /\ ContainsNull(n.items)
    \/ \E u \in 1..3 : /\ Has(n, UnionKeys[u])
                       /\ \E i \in 1..Len(n[UnionKeys[u]]) : ContainsNull(n[UnionKeys[u]][i])
    \/ /\ Has(n, "additionalProperties")
       /\ ~IsApLiteral(n.additionalProperties)
       /\ ContainsNull(n.additionalProperties)

\* a raw node with none of type, $ref, enum, properties
Shapeless(n) == ~IsNull(n) /\ DOMAIN n \cap {"type", "$ref", "enum", "properties"} = {}

RECURSIVE ContainsShapeless(_)
ContainsShapeless(n) ==
    /\ ~IsNull(n)
    /\ \/ Shapeless(n)
       \/ Has(n, "properties")
          /\ \E i \in 1..Len(n.properties) : ContainsShapeless(n.properties[i].schema)
       \/ Has(n, "items") /\ ContainsShapeless(n.items)
       \/ \E u \in 1..3 :
             /\ Has(n, UnionKeys[u])
             /\ \E i \in 1..Len(n[UnionKeys[u]]) : ContainsShapeless(n[UnionKeys[u]][i])
       \/ /\ Has(n, "additionalProperties")
          /\ ~IsApLiteral(n.additionalProperties)
          /\ ContainsShapeless(n.additionalProperties)

----------------------------------------------------------------------------
(* C1: every $ref of the assembled document, in components.schemas at any  *)
(* depth and in the request/response bindings of paths, names a key of     *)
(* components.schemas, for every input definitions map.                    *)
(* The code checks nothing: a graph that omits an operation-bound type, a  *)
(* forced-reference target or a raw $ref target is assembled all the same. *)
C1_NoDanglingReference ==
    Entered("ASSEMBLE") =>
        \A r \in PathRefs(openApiSpec) \cup ComponentRefs(openApiSpec) :
            Resolves(r, openApiSpec)

(* C2: an operation that binds a schema name absent from the component map *)
(* makes assembly fail before the serialize/write step, so no document     *)
(* with such an operation is ever written.                                 *)
(* The code has no such check: the file is written with the binding.       *)
C2_UnboundOperationNeverWritten ==
    outFile # NoFile => \A r \in PathRefs(outFile) : Resolves(r, outFile)

(* C3, as stated: a definition holding a raw node with none of type, $ref, *)
(* enum, properties (at any depth) aborts the run, so the component map is *)
(* never returned for such a graph.                                        *)
C3_ShapelessAbortsRun ==
    Entered("ASSEMBLE") =>
        \A i \in 1..Len(definitions) : ~ContainsShapeless(definitions[i].schema)

(* C3, amended: a raw node with none of type, $ref, enum, properties       *)
(* raises no error. Normalization aborts only on a null node; a shapeless  *)
(* definition gets its component, which for a type without override rules  *)
(* has none of the keys type, $ref, enum, properties, items and is the     *)
(* empty schema when the raw node is the empty object.                     *)
C3_ShapelessIsNormalized ==
    /\ (pc \in {"catch", "exited"} /\ trace # <<>> /\ Last(trace) = "NORMALIZE")
          => ContainsNull(definitions[idx].schema)
    /\ \A i \in Processed :
          Shapeless(definitions[i].schema) =>
             /\ HasKey(openApiSchemas, definitions[i].name)
             /\ definitions[i].name \notin MappedNames =>
                   LET c == Get(openApiSchemas, definitions[i].name)
                   IN  /\ DOMAIN c \cap {"type", "$ref", "enum", "properties", "items"} = {}
                       /\ definitions[i].schema = EmptyObj => c = EmptyObj

C3_Witness ==
    /\ pc = "done"
    /\ \E i \in 1..Len(definitions) :
          /\ definitions[i].schema = EmptyObj
          /\ Get(openApiSchemas, definitions[i].name) = EmptyObj

----------------------------------------------------------------------------
(* C4: the phases run in the order EXTRACT, NORMALIZE+OVERRIDE, ASSEMBLE,  *)
(* SERIALIZE, each entered at most once per run; after a failure no later  *)
(* phase is entered; the file is written only by a run in which all four   *)
(* phases were entered and none failed, and a failed run ends with exit    *)
(* code 1 and nothing written.                                             *)
C4_PipelineOrder ==
    /\ IsPrefix(trace, Phases)
    /\ pc \in {"log", "done"} => trace = Phases /\ writes = run /\ exitCode = -1
    /\ pc \notin {"log", "done", "idle"} => writes = run - 1
    /\ pc = "exited" => exitCode = 1
    /\ exitCode = 1 => pc = "exited"
    /\ writes = 0 <=> outFile = NoFile

C4_Witness ==
    /\ pc = "exited"
    /\ trace = <<"EXTRACT", "NORMALIZE">>
    /\ outFile = NoFile

(* C5: a second run in the same process on the same raw definitions ends   *)
(* with a document and a file equal to those of the first run, the order   *)
(* of the components and of the properties included.                       *)
C5_Deterministic ==
    (pc = "done" /\ run > 1) =>
        /\ openApiSpec = firstDoc.doc
        /\ outFile = firstDoc.text

C5_Witness ==
    /\ pc = "done"
    /\ run = 2
    /\ Len(openApiSpec.components.schemas) = 2
    /\ \E i \in 1..2 : Has(openApiSpec.components.schemas[i].schema, "properties")

\* T is a definition that refers to itself, directly or through another
\* definition that refers back to it
OnCycle(i) ==
    LET refs(k) == {r[Len(r)] : r \in NodeRefs(convertSchemaObject(definitions[k].schema))}
    IN  \/ definitions[i].name \in refs(i)
        \/ \E j \in 1..Len(definitions) :
              /\ definitions[j].name \in refs(i)
              /\ definitions[i].name \in refs(j)

OneComponentPerDefinition ==
    /\ Len(openApiSchemas) = Len(definitions)
    /\ \A i \in 1..Len(definitions) : openApiSchemas[i].name = definitions[i].name

(* C6: for a finite graph, $ref cycles and self-references included, the   *)
(* normalization of every definition terminates: the loop, once entered,   *)
(* ends with exactly one component per definition (or with the TypeError   *)
(* of a null node).                                                        *)
C6_NormalizationTerminates ==
    (pc = "loop") ~> ((pc = "dump" /\ OneComponentPerDefinition) \/ pc = "catch")

C6_Witness ==
    /\ pc = "dump"
    /\ OneComponentPerDefinition
    /\ \E i, j \in 1..Len(definitions) : i # j /\ OnCycle(i) /\ OnCycle(j)

----------------------------------------------------------------------------
(* C7: override application is idempotent: applying the override rules of  *)
(* a type to a schema that already had them applied leaves it unchanged.   *)
C7_OverridesIdempotent ==
    \A i \in 1..Len(openApiSchemas) :
        ApplyOverrides(openApiSchemas[i].name, openApiSchemas[i].schema)
            = openApiSchemas[i].schema

C7_Witness ==
    /\ pc = "done"
    /\ HasKey(openApiSchemas, "AssetLockReference")
    /\ HasProp(Get(openApiSchemas, "AssetLockReference"), "kind")
    /\ Get(Get(openApiSchemas, "AssetLockReference").properties, "kind").enum
          = <<"the-compact", "rhinestone">>

(* C8: the components Address, Amount and QuotePreference equal the        *)
(* registry literals whatever the raw node was: no key of the raw node     *)
(* survives.                                                               *)
C8_WholeSchemaReplacement ==
    \A i \in 1..Len(openApiSchemas) :
        LET c == openApiSchemas[i].schema
        IN  /\ openApiSchemas[i].name = "Address" =>
                 /\ DOMAIN c = {"type", "description"}
                 /\ c.type = "string"
                 /\ c.description = "ERC-7930 interoperable address"
            /\ openApiSchemas[i].name = "Amount" =>
                 /\ DOMAIN c = {"type", "description", "pattern"}
                 /\ c.type = "string"
                 /\ c.description =
                       "Integer encoded as a string to preserve precision (e.g., uint256)"
                 /\ c.pattern = "^[0-9]+$"
            /\ openApiSchemas[i].name = "QuotePreference" =>
                 /\ DOMAIN c = {"type", "enum"}
                 /\ c.type = "string"
                 /\ c.enum = <<"price", "speed", "input-priority", "trust-minimization">>

C8_Witness ==
    /\ pc = "done"
    /\ Len(definitions) = 1
    /\ definitions[1].name = "Address"
    /\ Has(definitions[1].schema, "properties")
    /\ HasKey(openApiSchemas, "Address")

\* the union keywords a raw node carries
UnionKeysOf(n) == DOMAIN n \cap {"anyOf", "oneOf", "allOf"}
IsLiteral(n) == DOMAIN n = {"type", "enum"} /\ n.type = "string" /\ Len(n.enum) = 1
IsTypeRef(n) == DOMAIN n = {"$ref"} /\ Len(n["$ref"]) = 2 /\ n["$ref"][1] = DefPrefix
\* a union node all of whose variants are bare string literals
LiteralUnion(n) ==
    /\ ~IsNull(n)
    /\ Cardinality(UnionKeysOf(n)) = 1
    /\ \A k \in UnionKeysOf(n) : \A i \in 1..Len(n[k]) : IsLiteral(n[k][i])
\* a union node all of whose variants are references to named types
RefUnion(n) ==
    /\ ~IsNull(n)
    /\ Cardinality(UnionKeysOf(n)) = 1
    /\ \A k \in UnionKeysOf(n) : \A i \in 1..Len(n[k]) : IsTypeRef(n[k][i])
Keyword(n) == CHOOSE k \in UnionKeysOf(n) : TRUE
ReplacedNames == {"Address", "Amount", "QuotePreference"}

(* C9, as stated: a union node all of whose variants are bare string       *)
(* literals normalizes to {type: string, enum: [...]} with the literals in *)
(* declaration order and no anyOf/oneOf/allOf key, for every such union.   *)
C9_LiteralUnionCollapses ==
    \A i \in Processed :
        LiteralUnion(definitions[i].schema) =>
            LET raw == definitions[i].schema
                c == Get(openApiSchemas, definitions[i].name)
            IN  /\ UnionKeysOf(c) = {}
                /\ Has(c, "type") /\ c.type = "string"
                /\ Has(c, "enum")
                /\ c.enum = [j \in 1..Len(raw[Keyword(raw)]) |-> raw[Keyword(raw)][j].enum[1]]

(* C9, amended: a union node all of whose variants are bare string         *)
(* literals keeps its union keyword, with one variant {type: string,       *)
(* enum: [literal]} per literal in declaration order and no type or enum   *)
(* of its own; only QuotePreference is emitted as one {type: string,       *)
(* enum: [...]}, the registry literal in the registry's order.             *)
C9_LiteralUnionKept ==
    \A i \in Processed :
        LiteralUnion(definitions[i].schema) =>
            LET raw == definitions[i].schema
                c == Get(openApiSchemas, definitions[i].name)
            IN  /\ definitions[i].name \notin ReplacedNames =>
                      /\ UnionKeysOf(c) = {Keyword(raw)}
                      /\ c[Keyword(raw)] = raw[Keyword(raw)]
                      /\ DOMAIN c \cap {"type", "enum"} = {}
                /\ definitions[i].name = "QuotePreference" =>
                      /\ UnionKeysOf(c) = {}
                      /\ c.enum = <<"price", "speed", "input-priority", "trust-minimization">>

C9_Witness ==
    /\ pc = "done"
    /\ \E i \in 1..Len(definitions) :
          /\ definitions[i].name = "OrderType"
          /\ LiteralUnion(definitions[i].schema)
          /\ Has(Get(openApiSchemas, "OrderType"), "anyOf")

(* C10, as stated: a union node all of whose variants are references       *)
(* normalizes to a oneOf list of references, one per variant in order,     *)
(* whatever union keyword the raw node used.                               *)
C10_RefUnionIsOneOf ==
    \A i \in Processed :
        (RefUnion(definitions[i].schema) /\ definitions[i].name \notin ReplacedNames) =>
            LET raw == definitions[i].schema
                c == Get(openApiSchemas, definitions[i].name)
            IN  /\ UnionKeysOf(c) = {"oneOf"}
                /\ c.oneOf = [j \in 1..Len(raw[Keyword(raw)]) |->
                                 CompRef(raw[Keyword(raw)][j]["$ref"][2])]

(* C10, amended: a union node all of whose variants are references         *)
(* normalizes to a list of bare references, one per variant in variant     *)
(* order, under the union keyword the raw node used (anyOf stays anyOf,    *)
(* allOf stays allOf); no variant body is inlined.                         *)
C10_RefUnionKeepsKeyword ==
    \A i \in Processed :
        (RefUnion(definitions[i].schema) /\ definitions[i].name \notin ReplacedNames) =>
            LET raw == definitions[i].schema
                c == Get(openApiSchemas, definitions[i].name)
                k == Keyword(raw)
            IN  /\ UnionKeysOf(c) = {k}
                /\ Len(c[k]) = Len(raw[k])
                /\ \A j \in 1..Len(raw[k]) :
                      /\ DOMAIN c[k][j] = {"$ref"}
                      /\ c[k][j]["$ref"] = <<CompPrefix, raw[k][j]["$ref"][2]>>

C10_Witness ==
    /\ pc = "done"
    /\ \E i \in 1..Len(definitions) :
          /\ definitions[i].name = "Order"
          /\ RefUnion(definitions[i].schema)
          /\ Has(Get(openApiSchemas, "Order"), "allOf")

----------------------------------------------------------------------------
\* an object-shaped raw node with zero declared properties and zero
\* required fields
OpenMapShape(n) ==
    /\ ~IsNull(n)
    /\ Has(n, "type") /\ n.type = "object"
    /\ Has(n, "properties") => Len(n.properties) = 0
    /\ Has(n, "required") => Len(n.required) = 0

(* C11: every object-shaped raw node with zero declared properties and     *)
(* zero required fields normalizes to an open map (additionalProperties:   *)
(* true), whatever other keys it carries; the raw node {type: object}      *)
(* normalizes to exactly {type: object, additionalProperties: true}.       *)
(* The code marks the node only when type is its single key: a description *)
(* or an empty properties map leaves it without additionalProperties.      *)
C11_OpenMapWhateverOtherKeys ==
    \A i \in Processed :
        (OpenMapShape(definitions[i].schema) /\ definitions[i].name \notin MappedNames) =>
            LET c == Get(openApiSchemas, definitions[i].name)
            IN  /\ Has(c, "additionalProperties")
                /\ c.additionalProperties = ApTrue
                /\ definitions[i].schema = Obj =>
                      c = [type |-> "object", additionalProperties |-> ApTrue]

----------------------------------------------------------------------------
\* an object node whose properties are references to named types, some of
\* them optional
RefObject(n) ==
    /\ ~IsNull(n)
    /\ Has(n, "type") /\ n.type = "object"
    /\ Has(n, "properties") /\ Len(n.properties) > 0
    /\ \A j \in 1..Len(n.properties) : IsTypeRef(n.properties[j].schema)
    /\ Has(n, "required")
    /\ \A j \in 1..Len(n.required) : HasKey(n.properties, n.required[j])
    /\ \E j \in 1..Len(n.properties) :
          \A k \in 1..Len(n.required) : n.required[k] # n.properties[j].name

\* Scenario A: the raw node of AvailableInput
ScenarioA ==
    [type |-> "object",
     properties |-> <<P("user", DefRef("Address")), P("asset", DefRef("Address")),
                      P("amount", DefRef("Amount")),
                      P("lock", DefRef("AssetLockReference"))>>,
     required |-> <<"user", "asset", "amount">>]

(* C12: for an object node whose properties are references, some of them   *)
(* optional (AvailableInput: user, asset, amount required, lock optional), *)
(* the normalized required list is exactly the raw required names in raw   *)
(* order, optional properties excluded, and every property, required or    *)
(* optional, is a reference into components.schemas to the same target.    *)
C12_RequiredAndReferences ==
    \A i \in Processed :
        LET raw == definitions[i].schema
            name == definitions[i].name
        IN  (RefObject(raw) /\ (name \notin MappedNames \/ raw = ScenarioA)) =>
                LET c == Get(openApiSchemas, name)
                IN  /\ Has(c, "properties")
                    /\ Keys(c.properties) = Keys(raw.properties)
                    /\ \A j \in 1..Len(raw.properties) :
                          c.properties[j].schema =
                             [x \in {"$ref"} |->
                                 <<"#/components/schemas/",
                                   raw.properties[j].schema["$ref"][2]>>]
                    /\ IF Len(raw.required) > 0
                       THEN Has(c, "required") /\ c.required = raw.required
                       ELSE ~Has(c, "required")
                    /\ raw = ScenarioA =>
                          /\ c.required = <<"user", "asset", "amount">>
                          /\ Get(c.properties, "lock")
                                = [x \in {"$ref"} |->
                                      <<"#/components/schemas/", "AssetLockReference">>]

C12_Witness ==
    /\ pc = "done"
    /\ \E i \in 1..Len(definitions) :
          /\ definitions[i].name = "AvailableInput"
          /\ definitions[i].schema = ScenarioA
          /\ Get(openApiSchemas, "AvailableInput").required = <<"user", "asset", "amount">>
          /\ HasProp(Get(openApiSchemas, "AvailableInput"), "lock")

----------------------------------------------------------------------------
(* C13, as stated: the components of the output are first those named in   *)
(* the declared preference list, in that list's order, then every other    *)
(* component in extraction order, for every order in which the extractor   *)
(* lists the definitions.                                                  *)
C13_PreferenceListFirst ==
    Entered("ASSEMBLE") =>
        Keys(openApiSpec.components.schemas) = Keys(ByPreference(definitions))

(* C13, amended: the components of the output are in extraction order, the *)
(* order of the keys of the definitions map, in the component map, in the  *)
(* assembled document and in the written file; no preference list          *)
(* reorders them.                                                          *)
C13_ExtractionOrder ==
    /\ (pc = "loop" \/ Entered("ASSEMBLE")) =>
          Keys(openApiSchemas) = SubSeq(Keys(definitions), 1, idx - 1)
    /\ Entered("ASSEMBLE") => Keys(openApiSpec.components.schemas) = Keys(definitions)
    /\ pc \in {"log", "done"} => Keys(outFile.components.schemas) = Keys(definitions)

C13_Witness ==
    /\ pc = "done"
    /\ Keys(definitions) = <<"GetQuoteRequest", "Amount">>
    /\ Keys(outFile.components.schemas) = <<"GetQuoteRequest", "Amount">>

----------------------------------------------------------------------------
(* The field-path rules of lines 174-309 as a table, in source order *)

SetRef(path, target) == [path |-> path, op |-> "SetRef", target |-> target]
SetDescription(path, text) == [path |-> path, op |-> "SetDescription", text |-> text]
SetEnum(path, values) == [path |-> path, op |-> "SetEnum", values |-> values]
Replace(path, literal) == [path |-> path, op |-> "Replace", literal |-> literal]

FieldRules(name) ==
    CASE name = "AssetLockReference" ->
            <<SetEnum("kind", <<"the-compact", "rhinestone">>),
              SetDescription("params", "Lock-specific parameters")>>
      [] name = "AvailableInput" ->
            <<SetRef("user", "Address"), SetRef("asset", "Address"),
              SetRef("amount", "Amount"), SetRef("lock", "AssetLockReference")>>
      [] name = "RequestedOutput" ->
            <<SetRef("receiver", "Address"), SetRef("asset", "Address"),
              SetRef("amount", "Amount"),
              SetDescription("calldata",
                  "Optional calldata describing how the receiver will consume the output")>>
      [] name = "RequestedOutputDetails" ->
            <<SetRef("user", "Address"), SetRef("asset", "Address"),
              SetRef("amount", "Amount")>>
      [] name = "GetQuoteRequest" ->
            <<SetRef("user", "Address"),
              SetDescription("availableInputs",
                  "Order of inputs is significant if preference is 'input-priority'"),
              SetDescription("minValidUntil", "Minimum validity timestamp (seconds)"),
              SetRef("preference", "QuotePreference")>>
      [] name = "Eip712Order" -> <<SetRef("domain", "Address")>>
      [] name = "QuoteDetails" -> <<Replace("availableInputs", QuoteDetailsInputsLiteral)>>
      [] name = "Quote" ->
            <<SetDescription("validUntil", "Quote validity timestamp (seconds)"),
              SetDescription("eta", "Estimated time of arrival (seconds)")>>
      [] name = "IntentRequest" ->
            <<SetDescription("order", "EIP-712 typed data for a gasless cross-chain order"),
              SetDescription("signature", Undefined)>>
      [] name = "IntentResponse" ->
            <<SetDescription("orderId", "Assigned order identifier if accepted")>>
      [] OTHER -> <<>>

\* the value a rule gives to the property it targets
RuleValue(old, r) ==
    CASE r.op = "SetRef" -> [x \in {"$ref"} |-> <<"#/components/schemas/", r.target>>]
      [] r.op = "Replace" -> r.literal
      [] r.op = "SetDescription" ->
            [k \in DOMAIN old \cup {"description"} |->
                IF k = "description" THEN r.text ELSE old[k]]
      [] r.op = "SetEnum" ->
            [k \in DOMAIN old \cup {"enum"} |-> IF k = "enum" THEN r.values ELSE old[k]]

\* a rule's field path exists in the schema
Applicable(n, r) ==
    /\ Has(n, "properties")
    /\ \E j \in 1..Len(n.properties) : n.properties[j].name = r.path

\* one rule applied where its path exists, skipped where it does not
ApplyRule(n, r) ==
    IF Applicable(n, r)
    THEN [n EXCEPT !.properties =
             [j \in 1..Len(@) |->
                 IF @[j].name = r.path
                 THEN [name |-> r.path, schema |-> RuleValue(@[j].schema, r)]
                 ELSE @[j]]]
    ELSE n

RECURSIVE ApplyRules(_, _)
\* the rules of a table applied in order
ApplyRules(n, rules) ==
    IF rules = <<>> THEN n ELSE ApplyRules(ApplyRule(n, Head(rules)), Tail(rules))

\* the rules of a type that are skipped on a schema
SkippedRules(name, n) ==
    {k \in 1..Len(FieldRules(name)) : ~Applicable(n, FieldRules(name)[k])}

\* the normalized schema of a definition, before the rules of its type
Normalized(i) ==
    ApplyMappingDescription(definitions[i].name, convertSchemaObject(definitions[i].schema))

(* C14: an override rule whose field path does not exist in the normalized *)
(* schema (no properties map, or no such property) is a no-op: it raises   *)
(* no error, creates no property, and the component equals what the        *)
(* remaining applicable rules produce.                                     *)
C14_AbsentPathIsNoOp ==
    \A i \in Processed :
        LET name == definitions[i].name
        IN  SkippedRules(name, Normalized(i)) # {} =>
               /\ HasKey(openApiSchemas, name)
               /\ LET c == Get(openApiSchemas, name)
                  IN  /\ c = ApplyRules(Normalized(i), FieldRules(name))
                      /\ Has(c, "properties") = Has(definitions[i].schema, "properties")
                      /\ Has(c, "properties") =>
                            Keys(c.properties) = Keys(definitions[i].schema.properties)

C14_Witness ==
    /\ pc = "done"
    /\ \E i \in 1..Len(definitions) :
          /\ definitions[i].name = "AvailableInput"
          /\ Keys(definitions[i].schema.properties) = <<"amount", "user">>
          /\ Keys(Get(openApiSchemas, "AvailableInput").properties) = <<"amount", "user">>
          /\ Get(Get(openApiSchemas, "AvailableInput").properties, "user") = CompRef("Address")

----------------------------------------------------------------------------
RECURSIVE SkippedUpTo(_)
\* the number of rules skipped on the first n definitions
SkippedUpTo(n) ==
    IF n = 0 THEN 0
    ELSE SkippedUpTo(n - 1)
           + Cardinality(SkippedRules(definitions[n].name, Normalized(n)))

\* what a run reports besides its three fixed lines and the error of a
\* failed run: the only channel main has to its caller is the console
Warnings ==
    LET Fixed(m) == \/ m.level = "error" /\ m.text = FailureMessage
                    \/ m.level = "log"
                       /\ m.text \in {StartingMessage, SuccessMessage, SchemasMessage}
        Extra(m) == ~Fixed(m)
    IN  SelectSeq(console, Extra)

(* C15: every override rule skipped because its field path was absent is  *)
(* recorded as an OverrideApplicationWarning, and the run returns the list *)
(* of these warnings together with the completed document: the number of   *)
(* warnings equals the number of skipped rules, run after run.             *)
(* The code records nothing: a skipped rule leaves no trace in what the    *)
(* run returns or prints.                                                  *)
C15_SkippedRulesAreReported ==
    pc = "done" => Len(Warnings) = run * SkippedUpTo(Len(definitions))

----------------------------------------------------------------------------
\* the request schema and the responses of an operation, as names
Binding(op) ==
    [path |-> op.path, method |-> op.method,
     request |-> op.requestBody.schema["$ref"],
     responses |-> [j \in 1..Len(op.responses) |->
                       IF Has(op.responses[j], "schema")
                       THEN <<op.responses[j].status, op.responses[j].schema["$ref"]>>
                       ELSE <<op.responses[j].status>>]]

FixedConfiguration(doc) ==
    /\ DOMAIN doc = {"openapi", "info", "servers", "tags", "paths", "components"}
    /\ doc.openapi = Template.openapi
    /\ doc.info = Template.info
    /\ doc.info.title = "OIF API" /\ doc.info.version = "0.1.0"
    /\ doc.servers = <<[url |-> "https://api.example.com"]>>
    /\ doc.tags = <<[name |-> "quote", description |-> "Quote generation"],
                    [name |-> "intent", description |-> "Intent submission"]>>
    /\ doc.paths = Template.paths
    /\ [i \in 1..Len(doc.paths) |-> Binding(doc.paths[i])] =
          << [path |-> "/v1/quote", method |-> "post",
              request |-> <<"#/components/schemas/", "GetQuoteRequest">>,
              responses |-> << <<"200", <<"#/components/schemas/", "GetQuoteResponse">> >>,
                               <<"400">>, <<"422">> >>],
             [path |-> "/v1/intent", method |-> "post",
              request |-> <<"#/components/schemas/", "IntentRequest">>,
              responses |-> << <<"200", <<"#/components/schemas/", "IntentResponse">> >>,
                               <<"400">>, <<"422">> >>] >>
    /\ DOMAIN doc.components = {"schemas"}

(* C16: for every input graph the document's info, servers, tags and paths *)
(* are exactly the fixed configuration: paths holds exactly POST /v1/quote *)
(* (request GetQuoteRequest, 200 -> GetQuoteResponse, 400, 422) and POST   *)
(* /v1/intent (request IntentRequest, 200 -> IntentResponse, 400, 422);    *)
(* assembly changes only components.schemas, and the serialized document   *)
(* carries the same configuration.                                         *)
C16_FixedConfiguration ==
    /\ FixedConfiguration(openApiSpec)
    /\ Entered("ASSEMBLE") => openApiSpec.components.schemas = openApiSchemas
    /\ yamlStr # NoFile => FixedConfiguration(yamlStr)
    /\ outFile # NoFile => FixedConfiguration(outFile)

C16_Witness ==
    /\ pc = "done"
    /\ Len(openApiSpec.components.schemas) > 0
    /\ ~HasKey(openApiSpec.components.schemas, "GetQuoteResponse")
    /\ Len(outFile.paths) = 2
    /\ outFile.paths[1].responses[1].schema = CompRef("GetQuoteResponse")

----------------------------------------------------------------------------
RECURSIVE PointersOnly(_, _)
\* wherever the raw node holds a $ref, the normalized node is a bare
\* reference: no body stands in its place
PointersOnly(raw, c) ==
    IF Has(raw, "$ref")
    THEN /\ DOMAIN c = {"$ref"}
         /\ Len(c["$ref"]) >= 1 /\ c["$ref"][1] = "#/components/schemas/"
    ELSE /\ Has(raw, "properties") =>
               /\ Has(c, "properties") /\ Len(c.properties) = Len(raw.properties)
               /\ \A j \in 1..Len(raw.properties) :
                     PointersOnly(raw.properties[j].schema, c.properties[j].schema)
         /\ (Has(raw, "type") /\ raw.type = "array" /\ Has(raw, "items")) =>
               Has(c, "items") /\ PointersOnly(raw.items, c.items)
         /\ \A u \in 1..3 :
               Has(raw, UnionKeys[u]) =>
                  /\ Has(c, UnionKeys[u]) /\ Len(c[UnionKeys[u]]) = Len(raw[UnionKeys[u]])
                  /\ \A j \in 1..Len(raw[UnionKeys[u]]) :
                        PointersOnly(raw[UnionKeys[u]][j], c[UnionKeys[u]][j])
         /\ (Has(raw, "additionalProperties") /\ ~IsApLiteral(raw.additionalProperties)) =>
               /\ Has(c, "additionalProperties")
               /\ PointersOnly(raw.additionalProperties, c.additionalProperties)

\* a definition with a $ref to a definition of the same graph
RefersIntoGraph(i) ==
    \E r \in NodeRefs(definitions[i].schema) :
        Len(r) = 2 /\ r[1] = DefPrefix /\ HasKey(definitions, r[2])

(* C17: each TypeName is normalized at most once per run: a body is        *)
(* produced only when the type's own definition is processed, one per      *)
(* definition, and every encounter of a type through a $ref yields a       *)
(* pointer to the component, not a second expansion.                       *)
C17_NormalizedOncePerRun ==
    /\ (pc = "loop" \/ Entered("ASSEMBLE")) =>
          /\ Len(openApiSchemas) = idx - 1
          /\ \A i, j \in 1..Len(openApiSchemas) :
                openApiSchemas[i].name = openApiSchemas[j].name => i = j
    /\ \A i \in Processed :
          LET name == definitions[i].name
              raw == definitions[i].schema
              c == Get(openApiSchemas, name)
          IN  /\ FieldRules(name) = <<>> /\ name \notin ReplacedNames =>
                    PointersOnly(raw, c)
              /\ FieldRules(name) # <<>> /\ Has(raw, "properties") /\ ~Has(raw, "$ref") =>
                    \A j \in 1..Len(raw.properties) :
                        (\A k \in 1..Len(FieldRules(name)) :
                            FieldRules(name)[k].path # raw.properties[j].name) =>
                           PointersOnly(raw.properties[j].schema, c.properties[j].schema)

C17_Witness ==
    /\ pc = "done"
    /\ Len(definitions) = 2
    /\ Len(openApiSchemas) = 2
    /\ \A i \in 1..2 : RefersIntoGraph(i) /\ definitions[i].name \notin MappedNames

----------------------------------------------------------------------------
\* the last rule of a type's table that targets a path
LastRule(name, path) ==
    LET ks == {k \in 1..Len(FieldRules(name)) : FieldRules(name)[k].path = path}
    IN  FieldRules(name)[CHOOSE k \in ks : \A l \in ks : l <= k]

Targeted(name, path) ==
    \E k \in 1..Len(FieldRules(name)) : FieldRules(name)[k].path = path

\* an earlier write the rules of the type come after: a description the
\* extractor carried, at the top of the definition or on a targeted property
EarlierDescription(i) ==
    LET raw == definitions[i].schema
    IN  /\ ~IsNull(raw)
        /\ \/ Truthy(raw, "description")
           \/ /\ Has(raw, "properties")
              /\ \E j \in 1..Len(raw.properties) :
                    /\ Targeted(definitions[i].name, raw.properties[j].name)
                    /\ ~IsNull(raw.properties[j].schema)
                    /\ Truthy(raw.properties[j].schema, "description")

(* C18: the rules of one TypeName are applied in declaration order and the *)
(* last write on a field path determines its value: a description of the   *)
(* schemaMapping entry replaces the extractor's, a per-type description    *)
(* rule replaces both, and a whole-schema replacement applied after a      *)
(* description leaves only the replacement literal.                        *)
C18_LastWriteWins ==
    \A i \in Processed :
        LET name == definitions[i].name
            raw == definitions[i].schema
            c == Get(openApiSchemas, name)
        IN  /\ name = "Address" => c = AddressLiteral
            /\ name = "Amount" => c = AmountLiteral
            /\ name = "QuotePreference" => c = QuotePreferenceLiteral /\ ~Has(c, "description")
            /\ (name \in {"AssetLockReference", "Eip712Order"} /\ ~Has(raw, "$ref")) =>
                  /\ Has(c, "description")
                  /\ c.description = IF name = "Eip712Order"
                                     THEN "EIP-712 typed data for execution"
                                     ELSE "Reference to a lock in a locking system"
            /\ (Has(raw, "properties") /\ ~Has(raw, "$ref") /\ name \notin ReplacedNames) =>
                  \A j \in 1..Len(c.properties) :
                      LET path == c.properties[j].name
                          v == c.properties[j].schema
                      IN  Targeted(name, path) =>
                             LET r == LastRule(name, path)
                             IN  /\ r.op = "SetDescription" =>
                                       Has(v, "description") /\ v.description = r.text
                                 /\ r.op = "SetEnum" => Has(v, "enum") /\ v.enum = r.values
                                 /\ r.op = "SetRef" =>
                                       v = [x \in {"$ref"} |->
                                               <<"#/components/schemas/", r.target>>]
                                 /\ r.op = "Replace" => v = r.literal

C18_Witness ==
    /\ pc = "done"
    /\ \E i \in 1..Len(definitions) :
          /\ definitions[i].name = "AssetLockReference"
          /\ EarlierDescription(i)
          /\ definitions[i].schema.description = "a lock"
          /\ Get(openApiSchemas, "AssetLockReference").description
                = "Reference to a lock in a locking system"
          /\ Get(Get(openApiSchemas, "AssetLockReference").properties, "params").description
                = "Lock-specific parameters"

----------------------------------------------------------------------------
\* the SetRef rules of a type
SetRefRules(name) ==
    LET IsSetRef(r) == r.op = "SetRef"
    IN  SelectSeq(FieldRules(name), IsSetRef)

SetRefTarget(name, path) ==
    LET ks == {k \in 1..Len(SetRefRules(name)) : SetRefRules(name)[k].path = path}
    IN  IF ks = {} THEN "" ELSE SetRefRules(name)[CHOOSE k \in ks : TRUE].target

\* a forced property the extractor gave as something else than the bare
\* reference to the rule's target
Rewritten(i) ==
    LET raw == definitions[i].schema
    IN  /\ ~IsNull(raw) /\ Has(raw, "properties") /\ ~Has(raw, "$ref")
        /\ \E j \in 1..Len(raw.properties) :
              /\ SetRefTarget(definitions[i].name, raw.properties[j].name) # ""
              /\ raw.properties[j].schema
                    # DefRef(SetRefTarget(definitions[i].name, raw.properties[j].name))

\* the forced properties of the component of definition i are bare
\* references to the targets of the rules
ForcedAreReferences(i) ==
    LET name == definitions[i].name
        c == Get(openApiSchemas, name)
    IN  /\ Keys(c.properties) = Keys(definitions[i].schema.properties)
        /\ \A j \in 1..Len(c.properties) :
              SetRefTarget(name, c.properties[j].name) # "" =>
                 /\ DOMAIN c.properties[j].schema = {"$ref"}
                 /\ c.properties[j].schema["$ref"] =
                       <<"#/components/schemas/", SetRefTarget(name, c.properties[j].name)>>

(* C19, as stated: the SetRef rules force the property to a bare reference *)
(* whenever it exists, whatever the extractor produced (AvailableInput     *)
(* user/asset -> Address, amount -> Amount, lock -> AssetLockReference;    *)
(* RequestedOutput receiver/asset -> Address, amount -> Amount;            *)
(* RequestedOutputDetails user/asset -> Address, amount -> Amount;         *)
(* GetQuoteRequest user -> Address, preference -> QuotePreference;         *)
(* Eip712Order domain -> Address), and all other properties of these types *)
(* keep their normalized value.                                            *)
C19_SetRefOthersKeepNormalized ==
    \A i \in Processed :
        LET name == definitions[i].name
            raw == definitions[i].schema
        IN  (SetRefRules(name) # <<>> /\ Has(raw, "properties") /\ ~Has(raw, "$ref")) =>
               /\ ForcedAreReferences(i)
               /\ \A j \in 1..Len(raw.properties) :
                     SetRefTarget(name, raw.properties[j].name) = "" =>
                        Get(openApiSchemas, name).properties[j].schema
                           = convertSchemaObject(raw.properties[j].schema)

(* C19, amended: the same forced references; every other property keeps    *)
(* its normalized value except for its description where a description     *)
(* rule of the type targets it (RequestedOutput.calldata,                  *)
(* GetQuoteRequest.availableInputs and .minValidUntil), which is the       *)
(* rule's text.                                                            *)
C19_SetRefRules ==
    \A i \in Processed :
        LET name == definitions[i].name
            raw == definitions[i].schema
        IN  (SetRefRules(name) # <<>> /\ Has(raw, "properties") /\ ~Has(raw, "$ref")) =>
               /\ ForcedAreReferences(i)
               /\ \A j \in 1..Len(raw.properties) :
                     LET path == raw.properties[j].name
                         v == Get(openApiSchemas, name).properties[j].schema
                         n == convertSchemaObject(raw.properties[j].schema)
                     IN  SetRefTarget(name, path) = "" =>
                            IF Targeted(name, path)
                            THEN /\ DOMAIN v = DOMAIN n \cup {"description"}
                                 /\ \A k \in DOMAIN n \ {"description"} : v[k] = n[k]
                                 /\ v.description = LastRule(name, path).text
                            ELSE v = n

C19_Witness ==
    /\ pc = "done"
    /\ \E i \in 1..Len(definitions) :
          /\ definitions[i].name = "Eip712Order"
          /\ Rewritten(i)
          /\ IsTypeRef(Get(definitions[i].schema.properties, "domain"))
          /\ Get(Get(openApiSchemas, "Eip712Order").properties, "domain") = CompRef("Address")

----------------------------------------------------------------------------
\* one key is written into the component map, after the keys it has
OneKeyWritten ==
    /\ Len(openApiSchemas') = Len(openApiSchemas) + 1
    /\ SubSeq(openApiSchemas', 1, Len(openApiSchemas)) = openApiSchemas
    /\ ~HasKey(openApiSchemas, Last(openApiSchemas').name)

(* C20: after the component map has been assigned to the document, no      *)
(* component is added, removed or changed before or during serialization:  *)
(* the document handed to the serializer, and the one left after it, is    *)
(* the assembled one, and each component key was written exactly once.     *)
C20_ImmutableAfterAssembly ==
    /\ [](pc \in {"dump", "write", "log", "done"} =>
             /\ openApiSpec = [Template EXCEPT !.components.schemas = openApiSchemas]
             /\ Keys(openApiSchemas) = Keys(definitions))
    /\ [](pc \in {"write", "log", "done"} => yamlStr = Dump(openApiSpec))
    /\ [][/\ pc \in {"dump", "write", "log"} =>
               openApiSpec' = openApiSpec /\ openApiSchemas' = openApiSchemas
          /\ openApiSchemas' # openApiSchemas =>
               \/ pc = "convert" /\ openApiSchemas' = <<>>
               \/ pc = "loop" /\ OneKeyWritten]_vars

C20_Witness ==
    /\ pc = "write"
    /\ Len(openApiSchemas) = 2
    /\ openApiSpec.components.schemas = openApiSchemas
    /\ DocHasUndefined(openApiSpec)
    /\ yamlStr # openApiSpec

----------------------------------------------------------------------------
\* a type with neither a per-type branch nor a description in schemaMapping
Plain(name) ==
    name \notin {"Address", "Amount", "AssetLockReference", "AvailableInput",
                 "RequestedOutput", "RequestedOutputDetails", "QuotePreference",
                 "GetQuoteRequest", "Eip712Order", "QuoteDetails", "Quote",
                 "IntentRequest", "IntentResponse"}

RECURSIVE PropertiesKept(_, _)
\* at every depth the normalized node has the raw node's property names in
\* the raw order
PropertiesKept(raw, c) ==
    Has(raw, "$ref") \/
       /\ Has(raw, "properties") = Has(c, "properties")
       /\ Has(raw, "properties") =>
             /\ Keys(c.properties) = Keys(raw.properties)
             /\ \A j \in 1..Len(raw.properties) :
                   PropertiesKept(raw.properties[j].schema, c.properties[j].schema)
       /\ (Has(raw, "type") /\ raw.type = "array" /\ Has(raw, "items")) =>
             Has(c, "items") /\ PropertiesKept(raw.items, c.items)

(* C21: normalizing an object node yields a properties map with exactly    *)
(* the raw node's property names in the raw declared order, each value     *)
(* being the recursive normalization of the raw property; normalization    *)
(* adds, drops and reorders no property.                                   *)
C21_PropertiesInDeclaredOrder ==
    \A i \in Processed :
        LET name == definitions[i].name
            raw == definitions[i].schema
            c == Get(openApiSchemas, name)
        IN  (Has(raw, "properties") /\ ~Has(raw, "$ref")) =>
               /\ name \notin ReplacedNames =>
                     Has(c, "properties") /\ Keys(c.properties) = Keys(raw.properties)
               /\ Plain(name) =>
                     /\ PropertiesKept(raw, c)
                     /\ \A j \in 1..Len(raw.properties) :
                           c.properties[j].schema
                              = convertSchemaObject(raw.properties[j].schema)

C21_Witness ==
    /\ pc = "done"
    /\ HasKey(openApiSchemas, "Receipt")
    /\ Keys(Get(openApiSchemas, "Receipt").properties) = <<"total", "id", "lines", "note">>
    /\ Keys(Get(Get(openApiSchemas, "Receipt").properties, "lines").items.properties)
          = <<"sku", "qty">>

----------------------------------------------------------------------------
BasicKeys == {"type", "description", "pattern", "enum"}

\* a raw node without properties, items, $ref, union or additionalProperties
Primitive(n) ==
    /\ ~IsNull(n)
    /\ DOMAIN n \cap {"properties", "items", "$ref", "anyOf", "oneOf", "allOf",
                      "additionalProperties", "required"} = {}
    /\ Has(n, "type") /\ n.type \in {"string", "number", "integer", "boolean"}

(* C22, as stated: normalizing a primitive node returns a node whose type, *)
(* pattern, enum and description equal those of the raw node, each present *)
(* in the output exactly when present in the raw node, with enum values in *)
(* the raw order.                                                          *)
C22_PrimitivePassesThrough ==
    \A i \in Processed :
        (Primitive(definitions[i].schema) /\ Plain(definitions[i].name)) =>
            LET raw == definitions[i].schema
                c == Get(openApiSchemas, definitions[i].name)
            IN  /\ DOMAIN c = DOMAIN raw \cap BasicKeys
                /\ \A k \in DOMAIN c : c[k] = raw[k]

(* C22, amended: type, pattern and description are in the output exactly   *)
(* when the raw node has them with a non-empty value, enum exactly when    *)
(* the raw node has it; each key of the output has the raw value, enum in  *)
(* the raw order, and the output has no other key. An empty description or *)
(* pattern is dropped.                                                     *)
C22_PrimitiveKeepsTruthyKeys ==
    \A i \in Processed :
        (Primitive(definitions[i].schema) /\ Plain(definitions[i].name)) =>
            LET raw == definitions[i].schema
                c == Get(openApiSchemas, definitions[i].name)
            IN  /\ DOMAIN c = {k \in DOMAIN raw \cap BasicKeys : k = "enum" \/ raw[k] # ""}
                /\ \A k \in DOMAIN c : c[k] = raw[k]

C22_Witness ==
    /\ pc = "done"
    /\ \E i \in 1..Len(definitions) :
          /\ definitions[i].name = "Label"
          /\ Primitive(definitions[i].schema)
          /\ definitions[i].schema.description = ""
          /\ Get(openApiSchemas, "Label") = [type |-> "string"]

----------------------------------------------------------------------------
\* the descriptions the table gives
Described ==
    {<<"Address", "ERC-7930 interoperable address">>,
     <<"Amount", "Integer encoded as a string to preserve precision (e.g., uint256)">>,
     <<"AssetLockReference", "Reference to a lock in a locking system">>,
     <<"Eip712Order", "EIP-712 typed data for execution">>}

(* C23: the override registry (schemaMapping and the literal schemas of    *)
(* the per-type rules) is never modified by normalization or override      *)
(* application: after any number of types processed and of runs it equals  *)
(* its initial value, and no step changes it.                              *)
C23_RegistryUnmodified ==
    /\ [](/\ DOMAIN schemaMappingTable = MappedNames
          /\ \A name \in MappedNames :
                /\ DOMAIN schemaMappingTable[name] = {"description"}
                /\ \A d \in Described :
                      d[1] = name => schemaMappingTable[name].description = d[2]
                /\ (\A d \in Described : d[1] # name) =>
                      schemaMappingTable[name].description = Undefined
          /\ \A i \in 1..Len(openApiSchemas) :
                /\ openApiSchemas[i].name = "Address" =>
                      openApiSchemas[i].schema = AddressLiteral
                /\ openApiSchemas[i].name = "Amount" =>
                      openApiSchemas[i].schema = AmountLiteral
                /\ openApiSchemas[i].name = "QuotePreference" =>
                      openApiSchemas[i].schema = QuotePreferenceLiteral)
    /\ [][schemaMappingTable' = schemaMappingTable]_vars

C23_Witness ==
    /\ pc = "done"
    /\ run = 2
    /\ \E i \in 1..Len(definitions) :
          /\ definitions[i].name = "Amount"
          /\ definitions[i].schema.description = "bigint"
    /\ schemaMappingTable["Amount"].description
          = "Integer encoded as a string to preserve precision (e.g., uint256)"

----------------------------------------------------------------------------
\* the names the references of the components point to
ReferencedNames(m) ==
    {r[Len(r)] : r \in UNION {NodeRefs(m[i].schema) : i \in 1..Len(m)}}

(* C24: the set of keys of the component map returned by                   *)
(* convertJsonSchemaToOpenApi equals the set of keys of the input          *)
(* definitions map: one component per definition under its own name, none  *)
(* dropped or renamed, and none created for a name that is not an input    *)
(* definition, also when that name has a registry entry or is the target   *)
(* of a forced reference.                                                  *)
C24_ComponentKeysAreDefinitionKeys ==
    /\ Names(openApiSchemas) \subseteq Names(definitions)
    /\ Entered("ASSEMBLE") =>
          /\ Names(openApiSchemas) = Names(definitions)
          /\ Cardinality(Names(openApiSchemas)) = Len(openApiSchemas)
          /\ Len(openApiSchemas) = Len(definitions)
          /\ \A n \in (MappedNames \cup ReferencedNames(openApiSchemas)) \ Names(definitions) :
                ~HasKey(openApiSchemas, n) /\ ~HasKey(openApiSpec.components.schemas, n)

C24_Witness ==
    /\ pc = "done"
    /\ Names(definitions) = {"AvailableInput"}
    /\ Names(openApiSchemas) = {"AvailableInput"}
    /\ "Address" \in ReferencedNames(openApiSchemas)
    /\ Get(definitions, "AvailableInput").properties[2].name = "user"
    /\ ~IsTypeRef(Get(definitions, "AvailableInput").properties[2].schema)

----------------------------------------------------------------------------
\* what the component of a definition is, from its own name and raw node
OwnComponent(name, raw) == ApplyOverrides(name, convertSchemaObject(raw))

(* C25: the override rules of a TypeName affect only that type's           *)
(* component: a definition whose name has no per-type branch and no        *)
(* description in schemaMapping gets convertSchemaObject of its raw node,  *)
(* and the component of every definition is determined by its own name and *)
(* raw node, whatever the other definitions of the graph are.              *)
C25_OverridesAreLocal ==
    \A i \in Processed :
        LET name == definitions[i].name
            raw == definitions[i].schema
            c == Get(openApiSchemas, name)
        IN  /\ Plain(name) => c = convertSchemaObject(raw)
            /\ c = OwnComponent(name, raw)
            /\ (name = "Node" /\ Len(definitions) = 2) =>
                  c = [type |-> "object",
                       properties |->
                          <<[name |-> "value", schema |-> [type |-> "string"]],
                            [name |-> "next",
                             schema |-> [x \in {"$ref"} |->
                                            <<"#/components/schemas/", "Node">>]]>>,
                       required |-> <<"value">>]

C25_Witness ==
    /\ pc = "done"
    /\ Len(definitions) = 2
    /\ definitions[1].name = "Amount"
    /\ definitions[2].name = "Node"
    /\ ~Has(Get(openApiSchemas, "Node"), "description")
    /\ Has(Get(openApiSchemas, "Amount"), "description")

----------------------------------------------------------------------------
\* a raw node with a $ref of the form '#/definitions/T'
IsDefinitionRef(n) ==
    ~IsNull(n) /\ Has(n, "$ref") /\ Len(n["$ref"]) = 2 /\ n["$ref"][1] = "#/definitions/"

RECURSIVE RefsConverted(_, _)
\* wherever the raw node is a reference to a definition, the normalized
\* node is the single key $ref with the same TypeName
RefsConverted(raw, c) ==
    IF IsDefinitionRef(raw)
    THEN /\ DOMAIN c = {"$ref"}
         /\ c["$ref"] = <<"#/components/schemas/", raw["$ref"][2]>>
    ELSE Has(raw, "$ref") \/
         /\ Has(raw, "properties") =>
               \A j \in 1..Len(raw.properties) :
                   RefsConverted(raw.properties[j].schema, c.properties[j].schema)
         /\ (Has(raw, "type") /\ raw.type = "array" /\ Has(raw, "items")) =>
               RefsConverted(raw.items, c.items)
         /\ \A u \in 1..3 :
               Has(raw, UnionKeys[u]) =>
                  \A j \in 1..Len(raw[UnionKeys[u]]) :
                      RefsConverted(raw[UnionKeys[u]][j], c[UnionKeys[u]][j])
         /\ (Has(raw, "additionalProperties") /\ ~IsApLiteral(raw.additionalProperties)) =>
               RefsConverted(raw.additionalProperties, c.additionalProperties)

\* a reference with sibling keys
RefWithSiblings(n) == IsDefinitionRef(n) /\ Cardinality(DOMAIN n) > 1

(* C26: convertSchemaObject on a raw node that carries $ref returns a node *)
(* with the single key $ref whose target names the same TypeName           *)
(* ('#/definitions/T' becomes '#/components/schemas/T'); every sibling key *)
(* of the raw node (type, description, properties, required, items) is     *)
(* discarded.                                                              *)
C26_ReferenceConversion ==
    \A i \in Processed :
        Plain(definitions[i].name) =>
            RefsConverted(definitions[i].schema,
                          Get(openApiSchemas, definitions[i].name))

C26_Witness ==
    /\ pc = "done"
    /\ \E i \in 1..Len(definitions) :
          /\ definitions[i].name = "Link"
          /\ RefWithSiblings(definitions[i].schema)
          /\ DOMAIN definitions[i].schema
                = {"$ref", "type", "description", "properties", "required"}
          /\ Get(openApiSchemas, "Link") = CompRef("Node")

----------------------------------------------------------------------------
RECURSIVE CarriesFalse(_)
\* some node carries additionalProperties: false
CarriesFalse(n) ==
    \/ Has(n, "additionalProperties") /\ n.additionalProperties = [boolean |-> FALSE]
    \/ /\ Has(n, "properties")
       /\ \E j \in 1..Len(n.properties) : CarriesFalse(n.properties[j].schema)
    \/ Has(n, "items") /\ CarriesFalse(n.items)
    \/ \E u \in 1..3 : /\ Has(n, UnionKeys[u])
                       /\ \E j \in 1..Len(n[UnionKeys[u]]) : CarriesFalse(n[UnionKeys[u]][j])
    \/ /\ Has(n, "additionalProperties")
       /\ ~IsApLiteral(n.additionalProperties)
       /\ CarriesFalse(n.additionalProperties)

RECURSIVE AdditionalPropertiesConverted(_, _, _)
\* node by node: false gives no value (the key holds undefined and is left
\* out of the written document), true gives true, a schema gives its
\* normalization; written is the node of the written document or NoFile
AdditionalPropertiesConverted(raw, c, written) ==
    Has(raw, "$ref") \/
       /\ Has(raw, "additionalProperties") =>
             /\ Has(c, "additionalProperties")
             /\ raw.additionalProperties = [boolean |-> FALSE] =>
                   /\ c.additionalProperties = [undefined |-> TRUE]
                   /\ written # NoFile => ~Has(written, "additionalProperties")
             /\ raw.additionalProperties = [boolean |-> TRUE] =>
                   /\ c.additionalProperties = [boolean |-> TRUE]
                   /\ written # NoFile => written.additionalProperties = [boolean |-> TRUE]
             /\ ~IsApLiteral(raw.additionalProperties) =>
                   /\ c.additionalProperties = convertSchemaObject(raw.additionalProperties)
                   /\ AdditionalPropertiesConverted(
                         raw.additionalProperties, c.additionalProperties,
                         IF written = NoFile THEN NoFile ELSE written.additionalProperties)
       /\ Has(raw, "properties") =>
             \A j \in 1..Len(raw.properties) :
                 AdditionalPropertiesConverted(
                     raw.properties[j].schema, c.properties[j].schema,
                     IF written = NoFile THEN NoFile ELSE written.properties[j].schema)

(* C27: no node of the normalized output carries additionalProperties with *)
(* the literal value false: an explicit false of the raw node is omitted   *)
(* (the key is given no value and is absent from the written document), an *)
(* explicit true stays true, and a schema-valued additionalProperties is   *)
(* replaced by its recursive normalization.                                *)
C27_NoAdditionalPropertiesFalse ==
    /\ \A i \in 1..Len(openApiSchemas) : ~CarriesFalse(openApiSchemas[i].schema)
    /\ \A i \in 1..Len(openApiSpec.components.schemas) :
          ~CarriesFalse(openApiSpec.components.schemas[i].schema)
    /\ outFile # NoFile =>
          \A i \in 1..Len(outFile.components.schemas) :
              ~CarriesFalse(outFile.components.schemas[i].schema)
    /\ \A i \in Processed :
          Plain(definitions[i].name) =>
             AdditionalPropertiesConverted(
                 definitions[i].schema,
                 Get(openApiSchemas, definitions[i].name),
                 IF pc \in {"log", "done"}
                 THEN Get(outFile.components.schemas, definitions[i].name)
                 ELSE NoFile)

C27_Witness ==
    /\ pc = "done"
    /\ \E i \in 1..Len(definitions) :
          /\ definitions[i].name = "Strict"
          /\ CarriesFalse(definitions[i].schema)
    /\ ~Has(Get(Get(outFile.components.schemas, "Strict").properties, "inner"),
            "additionalProperties")
    /\ Get(outFile.components.schemas, "Strict").additionalProperties
          = [type |-> "object", additionalProperties |-> ApTrue]

----------------------------------------------------------------------------
\* the definitions map of the extractor's output
RawDefinitions == IF Has(source, "definitions") THEN source.definitions ELSE <<>>

\* the component of definition i is not the plain normalization of its raw
\* node: an override rewrote it
RewrittenByOverride(i) ==
    /\ HasKey(openApiSchemas, definitions[i].name)
    /\ ~Throws(definitions[i].schema)
    /\ Get(openApiSchemas, definitions[i].name)
          # convertSchemaObject(definitions[i].schema)

(* C28: convertSchemaObject and convertJsonSchemaToOpenApi never modify    *)
(* the raw input graph: during and after normalization and override        *)
(* application the definitions map and every raw node in it equal their    *)
(* values before the run, and no step of the loop or after it changes      *)
(* them, also for the types whose properties an override rewrote.          *)
C28_RawGraphUnmodified ==
    /\ [](pc \in {"loop", "dump", "write", "log", "done"} =>
             /\ jsonSchema = source
             /\ definitions = RawDefinitions)
    /\ [][(pc \in {"loop", "dump", "write", "log"}) =>
             (definitions' = definitions /\ jsonSchema' = jsonSchema
                 /\ source' = source)]_vars

C28_Witness ==
    /\ pc = "done"
    /\ \E i \in 1..Len(definitions) :
          /\ RewrittenByOverride(i)
          /\ Has(definitions[i].schema, "properties")
          /\ Get(openApiSchemas, definitions[i].name).properties
                # convertSchemaObject(definitions[i].schema).properties
          /\ definitions[i] = RawDefinitions[i]

----------------------------------------------------------------------------
\* the keys a node of the converter's output may have
AllowedKeys ==
    {"type", "description", "pattern", "enum", "properties", "required", "items",
     "$ref", "anyOf", "oneOf", "allOf", "additionalProperties"}

RECURSIVE AllowedKeysOnly(_)
\* every node of c has keys from AllowedKeys only
AllowedKeysOnly(c) ==
    /\ DOMAIN c \subseteq AllowedKeys
    /\ Has(c, "properties") =>
          \A j \in 1..Len(c.properties) : AllowedKeysOnly(c.properties[j].schema)
    /\ Has(c, "items") => AllowedKeysOnly(c.items)
    /\ \A u \in 1..3 :
          Has(c, UnionKeys[u]) =>
             \A j \in 1..Len(c[UnionKeys[u]]) : AllowedKeysOnly(c[UnionKeys[u]][j])
    /\ (Has(c, "additionalProperties") /\ ~IsApLiteral(c.additionalProperties)) =>
          AllowedKeysOnly(c.additionalProperties)

RECURSIVE RequiredOnlyNonEmpty(_, _)
\* node by node: c has required only when raw's list is non-empty, and then
\* it is raw's list
RequiredOnlyNonEmpty(raw, c) ==
    /\ Has(c, "required") =>
          /\ Has(raw, "required")
          /\ Len(raw.required) > 0
          /\ c.required = raw.required
    /\ (Has(raw, "required") /\ Len(raw.required) = 0) => ~Has(c, "required")
    /\ (Has(raw, "properties") /\ Has(c, "properties")) =>
          \A j \in 1..Len(raw.properties) :
              RequiredOnlyNonEmpty(raw.properties[j].schema, c.properties[j].schema)
    /\ (Has(raw, "items") /\ Has(c, "items")) => RequiredOnlyNonEmpty(raw.items, c.items)
    /\ \A u \in 1..3 :
          (Has(raw, UnionKeys[u]) /\ Has(c, UnionKeys[u])) =>
             \A j \in 1..Len(raw[UnionKeys[u]]) :
                 RequiredOnlyNonEmpty(raw[UnionKeys[u]][j], c[UnionKeys[u]][j])

RECURSIVE OtherKeys(_)
\* the keys outside AllowedKeys found at any depth of a raw node
OtherKeys(n) ==
    (DOMAIN n \ AllowedKeys)
    \cup (IF Has(n, "properties")
          THEN UNION {OtherKeys(n.properties[j].schema) : j \in 1..Len(n.properties)}
          ELSE {})
    \cup (IF Has(n, "items") THEN OtherKeys(n.items) ELSE {})

(* C29: every node of the output of convertSchemaObject has keys only from *)
(* {type, description, pattern, enum, properties, required, items, $ref,   *)
(* anyOf, oneOf, allOf, additionalProperties}: any other key of a raw node *)
(* (format, const, default, minimum, title) is dropped, and required is    *)
(* present only when the raw required list is non-empty.                   *)
C29_OutputKeysAreAllowed ==
    /\ pc \in {"loop", "dump", "write", "log", "done"} =>
          \A i \in 1..Len(definitions) :
              ~Throws(definitions[i].schema) =>
                 /\ AllowedKeysOnly(convertSchemaObject(definitions[i].schema))
                 /\ RequiredOnlyNonEmpty(definitions[i].schema,
                                         convertSchemaObject(definitions[i].schema))
    /\ \A i \in Processed :
          Plain(definitions[i].name) =>
             /\ AllowedKeysOnly(Get(openApiSchemas, definitions[i].name))
             /\ RequiredOnlyNonEmpty(definitions[i].schema,
                                     Get(openApiSchemas, definitions[i].name))

C29_Witness ==
    /\ pc = "done"
    /\ \E i \in 1..Len(definitions) :
          /\ definitions[i].name = "Form"
          /\ OtherKeys(definitions[i].schema)
                = {"title", "minimum", "format", "default", "const"}
          /\ Has(definitions[i].schema, "required")
          /\ Len(definitions[i].schema.required) = 0
    /\ DOMAIN Get(openApiSchemas, "Form") = {"type", "properties"}
    /\ Get(openApiSchemas, "Form").properties
          = <<P("age", Num), P("kind", Str), P("tags", ArrayOf(Str))>>

----------------------------------------------------------------------------
RECURSIVE UnionsKept(_, _)
\* node by node, for a raw node that is no reference: c has the union
\* keywords raw has, each with as many variants as raw, variant j being the
\* normalization of raw's variant j
UnionsKept(raw, c) ==
    Has(raw, "$ref") \/
       /\ UnionKeysOf(c) = UnionKeysOf(raw)
       /\ \A k \in UnionKeysOf(raw) :
             /\ Len(c[k]) = Len(raw[k])
             /\ \A j \in 1..Len(raw[k]) :
                   /\ c[k][j] = convertSchemaObject(raw[k][j])
                   /\ UnionsKept(raw[k][j], c[k][j])
       /\ Has(raw, "properties") =>
             \A j \in 1..Len(raw.properties) :
                 UnionsKept(raw.properties[j].schema, c.properties[j].schema)
       /\ Has(c, "items") => UnionsKept(raw.items, c.items)

\* some node of n, n included, is a union node
RECURSIVE HasUnion(_)
HasUnion(n) ==
    \/ UnionKeysOf(n) # {}
    \/ /\ Has(n, "properties")
       /\ \E j \in 1..Len(n.properties) : HasUnion(n.properties[j].schema)
    \/ Has(n, "items") /\ HasUnion(n.items)

(* C30: convertSchemaObject on a union node keeps the raw node's union     *)
(* keyword (anyOf stays anyOf, oneOf stays oneOf, allOf stays allOf) and   *)
(* returns under it a list with the same number of variants in the same    *)
(* order, each variant being the recursive normalization of the raw        *)
(* variant; this at every depth, whatever the variants are (references,    *)
(* literals, objects, null).                                               *)
C30_UnionKeywordAndVariantsKept ==
    /\ pc \in {"loop", "dump", "write", "log", "done"} =>
          \A i \in 1..Len(definitions) :
              ~Throws(definitions[i].schema) =>
                 UnionsKept(definitions[i].schema,
                            convertSchemaObject(definitions[i].schema))
    /\ \A i \in Processed :
          (Plain(definitions[i].name) /\ HasUnion(definitions[i].schema)) =>
             UnionsKept(definitions[i].schema,
                        Get(openApiSchemas, definitions[i].name))

C30_Witness ==
    /\ pc = "done"
    /\ \E i \in 1..Len(definitions) :
          /\ definitions[i].name = "Mixed"
          /\ UnionKeysOf(definitions[i].schema) = {"anyOf", "allOf"}
          /\ Len(definitions[i].schema.anyOf) = 3
    /\ Get(openApiSchemas, "Mixed")
          = [description |-> "mixed",
             anyOf |-> <<CompRef("Quote"), Object(<<P("id", Str)>>, <<"id">>),
                         Lit("none")>>,
             allOf |-> <<[type |-> "object", additionalProperties |-> ApTrue]>>]

====
